---- MODULE Spec2Model ----
(***************************************************************************)
(* Open-Face-Blur: the per-frame region ledger (BlurManager), the frame    *)
(* source, detection cache and render cache (VideoProcessor), the          *)
(* interactive handlers (FaceBlurUI) and the export worker thread.         *)
(*                                                                         *)
(* Python objects are records that keep the field names of the source.     *)
(* A dict is a function whose DOMAIN is its key set; a list is a sequence. *)
(* None is a value of the same shape as the values it stands beside.       *)
(***************************************************************************)
EXTENDS Integers, Sequences, FiniteSets, TLC

VARIABLES
    vp,      \* VideoProcessor fields
    bm,      \* BlurManager fields
    ui,      \* FaceBlurUI fields
    worker,  \* the export thread: position and locals of process_video_thread / save_video
    sink,    \* the cv2.VideoWriter of the running export
    queue,   \* FaceBlurUI.processing_queue
    call     \* the last call of toggle_region, add_manual_region_to_frame,
             \* copy_regions_to_next_frame or get_frame, or of next_frame or
             \* prev_frame when it stopped short of get_frame,
             \* that a handler run in one step made, with what it returned and
             \* whether detection was enabled at the time

vars == <<vp, bm, ui, worker, sink, queue, call>>

(***************************** bounds and inputs ***************************)
\* Frames per video file.
MaxFrames == 2
\* The operator stops drawing on a frame that holds this many manual regions.
MaxManual == 1
\* An export is started only while the queue holds fewer messages than this.
MaxQueue == 3
\* The frame count of a long file; the frames it holds past MaxFrames are not read.
LongCount == 5

\* face_blur_ui.py:573: a drag shorter than this on either axis is dropped.
MinDrag == 10
\* blur_manager.py:14-15
InitSigma == 30
InitKsize == 31

Frames == 0 .. (MaxFrames - 1)
Videos == {"a.mp4"}
\* Pixel positions (x, y) the pointer events are drawn from: the four corners of
\* BoxA, two of them also on the edge of BoxB. A drag runs between any two.
Points == {<<0, 0>>, <<10, 10>>, <<0, 10>>, <<10, 0>>}
\* The files the operator can pick and the frames a file may fail to supply.
UnreadableSets == {{}, {0}, Frames}
\* A file of LongCount frames, as the frames of it that are not read.
LongFile == MaxFrames .. (LongCount - 1)
\* Slider positions (sigma 1..100, kernel size 3..101; an even size is reachable).
Sigmas == {30}
Ksizes == {31, 8}

\* Boxes the detector can report (x1, y1, x2, y2); they share the edge x = 10.
BoxA == <<0, 0, 10, 10>>
BoxB == <<10, 0, 20, 10>>

(********************************* values **********************************)
NoFrame == [vid |-> "none", idx |-> -1]
\* No capture (None). pos is the index of the frame the next read() decodes.
NoCap == [path |-> "none", opened |-> FALSE, unreadable |-> {}, pos |-> 0]
\* A detection result: None, or the (possibly empty) sequence of kept boxes.
NoneDet == [none |-> TRUE, boxes |-> <<>>]
SomeDet(bs) == [none |-> FALSE, boxes |-> bs]
EmptyMap == <<>>

Put(m, k, v) == [x \in DOMAIN m \cup {k} |-> IF x = k THEN v ELSE m[x]]
Del(m, k) == [x \in DOMAIN m \ {k} |-> m[x]]
RemoveAt(s, i) == [j \in 1 .. (Len(s) - 1) |-> IF j < i THEN s[j] ELSE s[j + 1]]
InSeq(e, s) == \E j \in 1 .. Len(s) : s[j] = e
Min(a, b) == IF a <= b THEN a ELSE b
Max(a, b) == IF a >= b THEN a ELSE b
Odd(k) == IF k % 2 = 1 THEN k ELSE k + 1

\* The faces of the video file, frame by frame: two faces above the threshold,
\* faces that all fall below it (an empty array), no face at all (None).
Faces(idx) ==
    IF idx % 3 = 0 THEN SomeDet(<<BoxA, BoxB>>)
    ELSE IF idx % 3 = 1 THEN SomeDet(<<>>)
    ELSE NoneDet

\* What FaceDetector.detect_faces does on one call for a frame: it raises, or it
\* returns what the frame shows.
detect_faces(frame, raises) == [raise |-> raises, det |-> Faces(frame.idx)]
DetOutcomes == BOOLEAN

(******************************* BlurManager *******************************)
BlurManagerInit ==
    [manual_regions |-> EmptyMap, detected_regions |-> EmptyMap,
     default_sigma |-> InitSigma, default_ksize |-> InitKsize,
     current_frame_idx |-> 0]

\* BlurManager.reset: the region maps are emptied; the defaults and the current
\* index are not assigned.
reset(b) == [b EXCEPT !.manual_regions = EmptyMap, !.detected_regions = EmptyMap]

\* A hit test that would leave the edges of the rectangle out.
ContainsInside(region, x, y) ==
    region[1] < x /\ x < region[3] /\ region[2] < y /\ y < region[4]

\* x1 <= x <= x2 and y1 <= y <= y2
Contains(region, x, y) ==
    region[1] <= x /\ x <= region[3] /\ region[2] <= y /\ y <= region[4]

\* Index of the first region of the list that contains the point, 0 when none does.
FirstHit(regions, x, y) ==
    IF \E j \in 1 .. Len(regions) : Contains(regions[j], x, y)
    THEN CHOOSE j \in 1 .. Len(regions) :
            /\ Contains(regions[j], x, y)
            /\ \A k \in 1 .. (j - 1) : ~Contains(regions[k], x, y)
    ELSE 0

RegionsOf(m, idx) == IF idx \in DOMAIN m THEN m[idx] ELSE <<>>

\* A toggle that would look through the manual regions before the automatic ones.
toggle_manual_first(b, x, y) ==
    LET idx == b.current_frame_idx
        dh == FirstHit(RegionsOf(b.detected_regions, idx), x, y)
        mh == FirstHit(RegionsOf(b.manual_regions, idx), x, y)
    IN  IF mh > 0
        THEN [bm |-> [b EXCEPT !.manual_regions[idx] = RemoveAt(@, mh)], ret |-> TRUE]
        ELSE IF dh > 0
        THEN [bm |-> [b EXCEPT !.detected_regions[idx] = RemoveAt(@, dh)], ret |-> TRUE]
        ELSE [bm |-> b, ret |-> FALSE]

toggle_region(b, x, y) ==
    LET idx == b.current_frame_idx
        dh == FirstHit(RegionsOf(b.detected_regions, idx), x, y)
        mh == FirstHit(RegionsOf(b.manual_regions, idx), x, y)
    IN  IF dh > 0
        THEN [bm |-> [b EXCEPT !.detected_regions[idx] = RemoveAt(@, dh)], ret |-> TRUE]
        ELSE IF mh > 0
        THEN [bm |-> [b EXCEPT !.manual_regions[idx] = RemoveAt(@, mh)], ret |-> TRUE]
        ELSE [bm |-> b, ret |-> FALSE]

add_manual_region_to_frame(b, frame_idx, region) ==
    [b EXCEPT !.manual_regions =
        Put(@, frame_idx, Append(RegionsOf(@, frame_idx), region))]

Restamp(region, sigma, ksize) ==
    <<region[1], region[2], region[3], region[4], sigma, ksize>>

\* BlurManager.update_blur_params: blur_regions (always empty) and manual_regions
\* are rewritten; detected_regions is not visited.
update_blur_params(b, sigma, ksize) ==
    [b EXCEPT
        !.default_sigma = sigma,
        !.default_ksize = ksize,
        !.manual_regions =
            [f \in DOMAIN @ |-> [j \in 1 .. Len(@[f]) |-> Restamp(@[f][j], sigma, ksize)]]]

\* A copy that would not look whether the destination holds the region already.
AppendAll(dst, src) == dst \o src

\* Append to dst every region of src that dst does not hold yet, in src order.
RECURSIVE AppendMissing(_, _)
AppendMissing(dst, src) ==
    IF src = <<>> THEN dst
    ELSE AppendMissing(IF InSeq(Head(src), dst) THEN dst ELSE Append(dst, Head(src)),
                       Tail(src))

\* A copy that would not look whether the frame has anything to copy.
copy_regions_always(b) ==
    LET cur == b.current_frame_idx
        nxt == cur + 1
    IN  [bm |-> [b EXCEPT
                   !.manual_regions =
                       Put(@, nxt, AppendMissing(RegionsOf(@, nxt), RegionsOf(@, cur))),
                   !.detected_regions =
                       Put(@, nxt, AppendMissing(RegionsOf(@, nxt), RegionsOf(@, cur)))],
         ret |-> TRUE]

copy_regions_to_next_frame(b) ==
    LET cur == b.current_frame_idx
        nxt == cur + 1
        has_manual == Len(RegionsOf(b.manual_regions, cur)) > 0
        has_detected == Len(RegionsOf(b.detected_regions, cur)) > 0
        m1 == IF has_manual
              THEN Put(b.manual_regions, nxt,
                       AppendMissing(RegionsOf(b.manual_regions, nxt), b.manual_regions[cur]))
              ELSE b.manual_regions
        d1 == IF has_detected
              THEN Put(b.detected_regions, nxt,
                       AppendMissing(RegionsOf(b.detected_regions, nxt), b.detected_regions[cur]))
              ELSE b.detected_regions
    IN  IF ~(has_manual \/ has_detected)
        THEN [bm |-> b, ret |-> FALSE]
        ELSE [bm |-> [b EXCEPT !.manual_regions = m1, !.detected_regions = d1], ret |-> TRUE]

\* Blur passes that would lay the manual regions before the automatic ones.
BlurPassesManualFirst(b, frame_idx) ==
    LET odd(rs) == [j \in 1 .. Len(rs) |-> Restamp(rs[j], rs[j][5], Odd(rs[j][6]))]
    IN  odd(RegionsOf(b.manual_regions, frame_idx)) \o odd(RegionsOf(b.detected_regions, frame_idx))

\* The blurs apply_blur performs on a copy of the frame: the automatic regions in
\* list order, then the manual ones, each with its kernel size made odd.
BlurPasses(b, frame_idx) ==
    LET odd(rs) == [j \in 1 .. Len(rs) |-> Restamp(rs[j], rs[j][5], Odd(rs[j][6]))]
    IN  odd(RegionsOf(b.detected_regions, frame_idx)) \o odd(RegionsOf(b.manual_regions, frame_idx))

\* A composited frame is the source frame plus the blur passes laid on it, each
\* pass blurring what the passes before it left. The passes are laid on
\* frame.copy(): frame is the caller's array as the call leaves it.
apply_blur(b, frame, frame_idx) ==
    [bm |-> [b EXCEPT !.current_frame_idx = frame_idx],
     frame |-> frame,
     ret |-> [frame |-> frame, blurs |-> BlurPasses(b, frame_idx)]]

(****************************** VideoProcessor *****************************)
VideoProcessorInit ==
    [cap |-> NoCap, has_meta |-> FALSE, frame_count |-> 0, current_frame_idx |-> 0,
     current_frame |-> NoFrame, detected_faces |-> NoneDet,
     processed_frames |-> EmptyMap, detection_results |-> EmptyMap,
     detect_faces |-> TRUE]

\* cap.set(cv2.CAP_PROP_POS_FRAMES, idx)
Seek(cap, idx) == [cap EXCEPT !.pos = idx]

\* What cap.read() returns: the frame at the capture's position, or NoFrame when
\* the handle is not open or the file cannot supply that frame.
Read(cap) ==
    IF cap.opened /\ cap.pos \in Frames /\ cap.pos \notin cap.unreadable
    THEN [vid |-> cap.path, idx |-> cap.pos]
    ELSE NoFrame

\* What cap.read() leaves of the capture: a frame that was read is behind it.
AfterRead(cap) == IF Read(cap) = NoFrame THEN cap ELSE [cap EXCEPT !.pos = @ + 1]

\* The result of a call that can raise: the objects as the call left them, the
\* returned value, and whether an exception is propagating.
Result(v, b, ret, exc) == [vp |-> v, bm |-> b, ret |-> ret, exc |-> exc]

\* int(cap.get(cv2.CAP_PROP_FRAME_COUNT)) of a file, given as the frames it cannot
\* supply: MaxFrames, or LongCount for a long file.
FrameCount(unreadable) ==
    IF \E f \in unreadable : f >= MaxFrames THEN LongCount ELSE MaxFrames

\* VideoProcessor.open_video. ok: whether the file opens; unreadable: the frames
\* the file cannot supply; d: what the detector does if it is called.
open_video(v, b, path, ok, unreadable, d) ==
    LET cap == [path |-> path, opened |-> ok, unreadable |-> unreadable, pos |-> 0]
        v1 == [v EXCEPT !.cap = cap]
        v2 == [v1 EXCEPT !.frame_count = FrameCount(unreadable), !.has_meta = TRUE,
                         !.current_frame_idx = 0, !.processed_frames = EmptyMap,
                         !.detection_results = EmptyMap, !.detected_faces = NoneDet]
        frame == Read(cap)
        v3 == [v2 EXCEPT !.cap = AfterRead(cap), !.current_frame = frame,
                         !.current_frame_idx = 0]
        b3 == [b EXCEPT !.current_frame_idx = 0]
        r == detect_faces(frame, d)
        v4 == [v3 EXCEPT !.detection_results = Put(@, 0, r.det), !.detected_faces = r.det]
    IN  IF ~ok THEN Result(v1, b, FALSE, FALSE)
        ELSE IF frame = NoFrame THEN Result(v2, b, TRUE, FALSE)
        ELSE IF ~v.detect_faces THEN Result(v3, b3, TRUE, FALSE)
        ELSE IF r.raise THEN Result(v3, b3, FALSE, TRUE)
        ELSE Result(v4, b3, TRUE, FALSE)

\* A test that would let any index through to cap.set.
CanSeekAny(v, frame_idx) == v.cap # NoCap

\* VideoProcessor.get_frame gets as far as cap.set: there is a capture and the
\* index is one of the file's.
CanSeek(v, frame_idx) == v.cap # NoCap /\ 0 <= frame_idx /\ frame_idx < v.frame_count

\* VideoProcessor.get_frame up to and including cap.set.
get_frame_seek(v, frame_idx) == [v EXCEPT !.cap = Seek(@, frame_idx)]

\* A get_frame that would not look into the detection cache.
get_frame_uncached(v, b, frame_idx, d) ==
    LET frame == Read(v.cap)
        v1 == [v EXCEPT !.cap = AfterRead(@), !.current_frame = frame,
                        !.current_frame_idx = frame_idx]
        b1 == [b EXCEPT !.current_frame_idx = frame_idx]
        r == detect_faces(frame, d)
    IN  IF frame = NoFrame THEN Result(v, b, NoFrame, FALSE)
        ELSE IF ~v.detect_faces
        THEN Result([v1 EXCEPT !.detected_faces = NoneDet], b1, frame, FALSE)
        ELSE IF r.raise THEN Result(v1, b1, NoFrame, TRUE)
        ELSE Result([v1 EXCEPT !.detection_results = Put(@, frame_idx, r.det),
                               !.detected_faces = r.det],
                    b1, frame, FALSE)

\* VideoProcessor.get_frame from cap.read() on; ret is the frame or NoFrame (None).
\* The frame is the one at the capture's position, which is frame_idx unless
\* another thread moved the capture since the seek.
get_frame_read(v, b, frame_idx, d) ==
    LET frame == Read(v.cap)
        v1 == [v EXCEPT !.cap = AfterRead(@), !.current_frame = frame,
                        !.current_frame_idx = frame_idx]
        b1 == [b EXCEPT !.current_frame_idx = frame_idx]
        r == detect_faces(frame, d)
    IN  IF frame = NoFrame THEN Result(v, b, NoFrame, FALSE)
        ELSE IF frame_idx \in DOMAIN v.detection_results
        THEN Result([v1 EXCEPT !.detected_faces = v.detection_results[frame_idx]],
                    b1, frame, FALSE)
        ELSE IF ~v.detect_faces
        THEN Result([v1 EXCEPT !.detected_faces = NoneDet], b1, frame, FALSE)
        ELSE IF r.raise THEN Result(v1, b1, NoFrame, TRUE)
        ELSE Result([v1 EXCEPT !.detection_results = Put(@, frame_idx, r.det),
                               !.detected_faces = r.det],
                    b1, frame, FALSE)

\* VideoProcessor.get_frame run without another thread in between.
get_frame(v, b, frame_idx, d) ==
    IF CanSeek(v, frame_idx)
    THEN get_frame_read(get_frame_seek(v, frame_idx), b, frame_idx, d)
    ELSE Result(v, b, NoFrame, FALSE)

\* One region per detected box, in detection order, with the current defaults.
Materialize(b, boxes) ==
    [j \in 1 .. Len(boxes) |->
        <<boxes[j][1], boxes[j][2], boxes[j][3], boxes[j][4],
          b.default_sigma, b.default_ksize>>]

Rects(regions) ==
    [j \in 1 .. Len(regions) |-> <<regions[j][1], regions[j][2], regions[j][3], regions[j][4]>>]

\* The cached artifact: the composited frame plus the outlines drawn on it.
Annotated(b, composited, idx) ==
    [frame |-> composited.frame, blurs |-> composited.blurs,
     auto_boxes |-> Rects(RegionsOf(b.detected_regions, idx)),
     manual_boxes |-> Rects(RegionsOf(b.manual_regions, idx))]

NoRender == [frame |-> NoFrame, blurs |-> <<>>, auto_boxes |-> <<>>, manual_boxes |-> <<>>]

\* A render that would composite anew on every request, cached or not.
process_uncached(v, b) ==
    LET idx == v.current_frame_idx
        b1 == IF ~v.detected_faces.none /\ idx \notin DOMAIN b.detected_regions
              THEN [b EXCEPT !.detected_regions =
                        Put(@, idx, Materialize(b, v.detected_faces.boxes))]
              ELSE b
        blurred == apply_blur(b1, v.current_frame, idx)
        processed == Annotated(blurred.bm, blurred.ret, idx)
    IN  IF v.current_frame = NoFrame THEN Result(v, b, NoRender, FALSE)
        ELSE Result([v EXCEPT !.processed_frames = Put(@, idx, processed),
                              !.current_frame = blurred.frame],
                    blurred.bm, processed, FALSE)

\* A render that would materialise the detection result over an existing entry.
process_rematerialize(v, b) ==
    LET idx == v.current_frame_idx
        b1 == IF ~v.detected_faces.none
              THEN [b EXCEPT !.detected_regions =
                        Put(@, idx, Materialize(b, v.detected_faces.boxes))]
              ELSE b
        blurred == apply_blur(b1, v.current_frame, idx)
        processed == Annotated(blurred.bm, blurred.ret, idx)
    IN  IF v.current_frame = NoFrame THEN Result(v, b, NoRender, FALSE)
        ELSE IF idx \in DOMAIN v.processed_frames
        THEN Result(v, b, v.processed_frames[idx], FALSE)
        ELSE Result([v EXCEPT !.processed_frames = Put(@, idx, processed),
                              !.current_frame = blurred.frame],
                    blurred.bm, processed, FALSE)

\* VideoProcessor.process_current_frame; ret is the processed frame or NoRender.
process_current_frame(v, b) ==
    LET idx == v.current_frame_idx
        b1 == IF ~v.detected_faces.none /\ idx \notin DOMAIN b.detected_regions
              THEN [b EXCEPT !.detected_regions =
                        Put(@, idx, Materialize(b, v.detected_faces.boxes))]
              ELSE b
        blurred == apply_blur(b1, v.current_frame, idx)
        processed == Annotated(blurred.bm, blurred.ret, idx)
    IN  IF v.current_frame = NoFrame THEN Result(v, b, NoRender, FALSE)
        ELSE IF idx \in DOMAIN v.processed_frames
        THEN Result(v, b, v.processed_frames[idx], FALSE)
        ELSE Result([v EXCEPT !.processed_frames = Put(@, idx, processed),
                              !.current_frame = blurred.frame],
                    blurred.bm, processed, FALSE)

vp_next_frame(v, b, d) ==
    IF v.current_frame_idx < v.frame_count - 1
    THEN get_frame(v, b, v.current_frame_idx + 1, d)
    ELSE Result(v, b, NoFrame, FALSE)

vp_prev_frame(v, b, d) ==
    IF v.current_frame_idx > 0
    THEN get_frame(v, b, v.current_frame_idx - 1, d)
    ELSE Result(v, b, NoFrame, FALSE)

(******************************** FaceBlurUI *******************************)
\* Widget texts, the canvas image and the StringVars behind the labels are
\* display only and are left out. The canvas is taken to show the frame at scale
\* 1 with no offset, so event and frame coordinates agree. frame_slider.set
\* re-enters on_slider_change with the index just loaded, which repeats a
\* get_frame that has just succeeded and changes nothing.
\* polls: the check_progress calls scheduled with root.after; poll_pc: where a
\* running check_progress stands; nav: the navigation handler that stands
\* between cap.set and cap.read of its get_frame, and the index it seeks.
NoNav == [h |-> "none", idx |-> -1]
FaceBlurUIInit ==
    [drawing |-> FALSE, start_x |-> 0, start_y |-> 0,
     blur_sigma |-> InitSigma, blur_ksize |-> InitKsize,
     auto_detect |-> TRUE, is_processing |-> FALSE,
     polls |-> 0, poll_pc |-> "idle", nav |-> NoNav]

World(v, b, u) == [vp |-> v, bm |-> b, ui |-> u]

\* FaceBlurUI.show_frame: everything but the drawing on the canvas.
show_frame(v, b, u) ==
    LET r == process_current_frame(v, b)
    IN  World(r.vp, r.bm, u)

run_detection(v, b, u, d) ==
    LET idx == v.current_frame_idx
        v1 == [v EXCEPT !.detection_results = Del(@, idx)]
        r == detect_faces(v.current_frame, d)
        v2 == [v1 EXCEPT !.detection_results = Put(@, idx, r.det), !.detected_faces = r.det]
        v3 == [v2 EXCEPT !.processed_frames = Del(@, idx)]
    IN  IF v.current_frame = NoFrame THEN World(v, b, u)
        ELSE IF r.raise THEN World(v1, b, u)
        ELSE show_frame(v3, b, u)

toggle_auto_detect(v, b, u, d) ==
    LET u1 == [u EXCEPT !.auto_detect = ~@]
        v1 == [v EXCEPT !.detect_faces = TRUE, !.detection_results = Del(@, v.current_frame_idx)]
    IN  IF u1.auto_detect
        THEN IF v.current_frame # NoFrame
             THEN run_detection(v1, b, u1, d)
             ELSE World(v, b, u1)
        ELSE World([v EXCEPT !.detect_faces = FALSE], b, u1)

ui_open_video(v, b, u, path, ok, unreadable, d) ==
    LET v0 == [v EXCEPT !.detect_faces = u.auto_detect]
        r == open_video(v0, b, path, ok, unreadable, d)
    IN  IF r.exc \/ ~r.ret THEN World(r.vp, r.bm, u)
        ELSE IF ~u.auto_detect
        THEN show_frame([r.vp EXCEPT !.detect_faces = FALSE], r.bm, u)
        ELSE show_frame(r.vp, r.bm, u)

\* A slider command that would hand the kernel size on as the slider gives it.
ui_update_uncorrected(v, b, u) ==
    show_frame([v EXCEPT !.processed_frames = EmptyMap],
               update_blur_params(b, u.blur_sigma, u.blur_ksize), u)

\* FaceBlurUI.update_blur_params
ui_update_blur_params(v, b, u) ==
    LET ksize == IF u.blur_ksize % 2 = 0 THEN u.blur_ksize + 1 ELSE u.blur_ksize
        u1 == [u EXCEPT !.blur_ksize = ksize]
        b1 == update_blur_params(b, u.blur_sigma, ksize)
    IN  show_frame([v EXCEPT !.processed_frames = EmptyMap], b1, u1)

\* on_slider_change after get_frame returned r: the frame is shown whatever
\* get_frame returned.
slider_shown(r, u) ==
    IF r.exc THEN World(r.vp, r.bm, u) ELSE show_frame(r.vp, r.bm, u)

on_slider_change(v, b, u, value, d) == slider_shown(get_frame(v, b, value, d), u)

\* on_canvas_click gets as far as toggle_region: a video is loaded and a frame
\* was read (current_frame.shape raises on None).
ClickReachesLedger(v) == v.cap # NoCap /\ v.current_frame # NoFrame

\* A click that would leave the frame's cache entry in place when it removes a region.
on_canvas_click_cached(v, b, u, x, y) ==
    LET t == toggle_region(b, x, y)
    IN  IF ~ClickReachesLedger(v) THEN World(v, b, u)
        ELSE IF t.ret THEN show_frame(v, t.bm, u)
        ELSE World(v, b, [u EXCEPT !.drawing = TRUE, !.start_x = x, !.start_y = y])

on_canvas_click(v, b, u, x, y) ==
    LET t == toggle_region(b, x, y)
        v1 == [v EXCEPT !.processed_frames = Del(@, v.current_frame_idx)]
    IN  IF ~ClickReachesLedger(v) THEN World(v, b, u)
        ELSE IF t.ret THEN show_frame(v1, t.bm, u)
        ELSE World(v, b, [u EXCEPT !.drawing = TRUE, !.start_x = x, !.start_y = y])

\* A release that would store the press and release points as they come.
on_canvas_release_unsorted(v, b, u, end_x, end_y) ==
    LET u1 == [u EXCEPT !.drawing = FALSE]
        frame_idx == v.current_frame_idx
        b1 == add_manual_region_to_frame(b, frame_idx,
                  <<u.start_x, u.start_y, end_x, end_y, u.blur_sigma, Odd(u.blur_ksize)>>)
        v1 == [v EXCEPT !.processed_frames = Del(@, frame_idx)]
    IN  IF ~u.drawing THEN World(v, b, u)
        ELSE IF v.current_frame = NoFrame THEN World(v, b, u1)
        ELSE IF Max(u.start_x, end_x) - Min(u.start_x, end_x) < MinDrag
                \/ Max(u.start_y, end_y) - Min(u.start_y, end_y) < MinDrag
        THEN World(v, b, u1)
        ELSE show_frame(v1, b1, u1)

\* on_canvas_release gets as far as add_manual_region_to_frame: a drag is under
\* way on a frame and spans MinDrag on both axes.
ReleaseReachesLedger(v, u, end_x, end_y) ==
    /\ u.drawing
    /\ v.current_frame # NoFrame
    /\ Max(u.start_x, end_x) - Min(u.start_x, end_x) >= MinDrag
    /\ Max(u.start_y, end_y) - Min(u.start_y, end_y) >= MinDrag

on_canvas_release(v, b, u, end_x, end_y) ==
    LET u1 == [u EXCEPT !.drawing = FALSE]
        x1 == Min(u.start_x, end_x)
        y1 == Min(u.start_y, end_y)
        x2 == Max(u.start_x, end_x)
        y2 == Max(u.start_y, end_y)
        ksize == Odd(u.blur_ksize)
        frame_idx == v.current_frame_idx
        b1 == add_manual_region_to_frame(b, frame_idx, <<x1, y1, x2, y2, u.blur_sigma, ksize>>)
        v1 == [v EXCEPT !.processed_frames = Del(@, frame_idx)]
    IN  IF ~u.drawing THEN World(v, b, u)
        ELSE IF v.current_frame = NoFrame THEN World(v, b, u1)
        ELSE IF x2 - x1 < MinDrag \/ y2 - y1 < MinDrag THEN World(v, b, u1)
        ELSE show_frame(v1, b1, u1)

cancel_drawing(v, b, u) ==
    IF u.drawing THEN World(v, b, [u EXCEPT !.drawing = FALSE]) ELSE World(v, b, u)

\* FaceBlurUI.next_frame after VideoProcessor.next_frame returned r.
next_shown(r, u) ==
    LET v1 == [r.vp EXCEPT !.processed_frames = Del(@, r.vp.current_frame_idx)]
    IN  IF r.exc \/ r.ret = NoFrame THEN World(r.vp, r.bm, u)
        ELSE show_frame(v1, r.bm, u)

ui_next_frame(v, b, u, d) == next_shown(vp_next_frame(v, b, d), u)

\* FaceBlurUI.prev_frame after VideoProcessor.prev_frame returned r.
prev_shown(r, u) ==
    IF r.exc \/ r.ret = NoFrame THEN World(r.vp, r.bm, u)
    ELSE show_frame(r.vp, r.bm, u)

ui_prev_frame(v, b, u, d) == prev_shown(vp_prev_frame(v, b, d), u)

\* maintain_prev_box gets as far as copy_regions_to_next_frame.
CopyReachesLedger(v) == v.cap # NoCap /\ v.current_frame_idx + 1 < v.frame_count

maintain_prev_box(v, b, u, d) ==
    LET next_idx == v.current_frame_idx + 1
        c == copy_regions_to_next_frame(b)
        v1 == [v EXCEPT !.processed_frames = Del(@, next_idx)]
        r == get_frame(v1, c.bm, next_idx, d)
    IN  IF ~CopyReachesLedger(v) THEN World(v, b, u)
        ELSE IF c.ret THEN slider_shown(r, u)
        ELSE ui_next_frame(v, b, u, d)

(***************************** the export thread ***************************)
WorkerInit ==
    [pc |-> "idle", i |-> 0, n |-> 0, current_pos |-> 0, frame |-> NoFrame,
     exc |-> FALSE, result |-> FALSE]

\* created: a VideoWriter was constructed; opened: it could open its file;
\* released: calls of release(); writes: the frames passed to write(), in order.
SinkInit == [created |-> FALSE, opened |-> FALSE, released |-> 0, writes |-> <<>>]

VideoWriter(sink_ok) == [created |-> TRUE, opened |-> sink_ok, released |-> 0, writes |-> <<>>]
Write(s, processed) == [s EXCEPT !.writes = Append(@, processed)]
\* A writer whose release() would do nothing.
Unreleased(s) == s
Release(s) == [s EXCEPT !.released = @ + 1]

Msg(type, value) == [type |-> type, value |-> value]
\* process_video_thread.progress_callback: int(current / total * 100)
Progress(current, total) == Msg("progress", (current * 100) \div total)
\* The message process_video_thread puts when save_video returned or raised.
Terminal(w) ==
    IF w.exc THEN Msg("error", 1)
    ELSE IF w.result THEN Msg("complete", 0)
    ELSE Msg("error", 0)
IsTerminal(m) == m.type \in {"complete", "error"}

NoCall == [op |-> "none", idx |-> -1, x |-> -1, y |-> -1, ret |-> FALSE, detect_faces |-> TRUE]
\* get_frame(frame_idx) returned r; ret: whether it returned a frame.
GetFrameCall(frame_idx, r) ==
    [op |-> "get_frame", idx |-> frame_idx, x |-> -1, y |-> -1, ret |-> (r.ret # NoFrame),
     detect_faces |-> vp.detect_faces]

(********************************* actions *********************************)
Init ==
    /\ vp = VideoProcessorInit
    /\ bm = BlurManagerInit
    /\ ui = FaceBlurUIInit
    /\ worker = WorkerInit
    /\ sink = SinkInit
    /\ queue = <<>>
    /\ call = NoCall

\* A handler runs on the Tk thread, never inside another handler.
UiIdle == ui.poll_pc = "idle" /\ ui.nav = NoNav

Handle(w) ==
    /\ UiIdle
    /\ vp' = w.vp
    /\ bm' = w.bm
    /\ ui' = w.ui
    /\ UNCHANGED <<worker, sink, queue>>

OpenVideo(path, ok, unreadable, d) ==
    /\ ok \/ unreadable = {}
    /\ Handle(ui_open_video(vp, bm, ui, path, ok, unreadable, d))
    /\ UNCHANGED call

ToggleAutoDetect(d) == Handle(toggle_auto_detect(vp, bm, ui, d)) /\ UNCHANGED call

RunDetection(d) == Handle(run_detection(vp, bm, ui, d)) /\ UNCHANGED call

\* A blur slider is moved to (sigma, ksize) and its command runs.
BlurSlider(sigma, ksize) ==
    /\ sigma = ui.blur_sigma \/ ksize = ui.blur_ksize
    /\ Handle(ui_update_blur_params(vp, bm, [ui EXCEPT !.blur_sigma = sigma, !.blur_ksize = ksize]))
    /\ UNCHANGED call

\* The frame slider is enabled, and ranges over the frames, once a video opened.
FrameSlider(value, d) ==
    /\ vp.has_meta
    /\ value \in 0 .. (vp.frame_count - 1)
    /\ Handle(on_slider_change(vp, bm, ui, value, d))
    /\ call' = GetFrameCall(value, get_frame(vp, bm, value, d))

\* A button press follows the release of the previous one.
CanvasClick(x, y) ==
    /\ ~ui.drawing
    /\ Handle(on_canvas_click(vp, bm, ui, x, y))
    /\ call' = IF ClickReachesLedger(vp)
               THEN [op |-> "toggle_region", idx |-> bm.current_frame_idx, x |-> x, y |-> y,
                     ret |-> toggle_region(bm, x, y).ret, detect_faces |-> vp.detect_faces]
               ELSE call

CanvasRelease(x, y) ==
    /\ ui.drawing
    /\ Len(RegionsOf(bm.manual_regions, vp.current_frame_idx)) < MaxManual
    /\ Handle(on_canvas_release(vp, bm, ui, x, y))
    /\ call' = IF ReleaseReachesLedger(vp, ui, x, y)
               THEN [op |-> "add_manual_region_to_frame", idx |-> vp.current_frame_idx,
                     x |-> x, y |-> y, ret |-> TRUE, detect_faces |-> vp.detect_faces]
               ELSE call

CancelDrawing ==
    /\ ui.drawing
    /\ Handle(cancel_drawing(vp, bm, ui))
    /\ UNCHANGED call

NextFrame(d) ==
    /\ Handle(ui_next_frame(vp, bm, ui, d))
    /\ call' = IF vp.current_frame_idx < vp.frame_count - 1
               THEN GetFrameCall(vp.current_frame_idx + 1, vp_next_frame(vp, bm, d))
               ELSE [op |-> "next_frame", idx |-> vp.current_frame_idx + 1, x |-> -1, y |-> -1,
                     ret |-> FALSE, detect_faces |-> vp.detect_faces]

PrevFrame(d) ==
    /\ Handle(ui_prev_frame(vp, bm, ui, d))
    /\ call' = IF vp.current_frame_idx > 0
               THEN GetFrameCall(vp.current_frame_idx - 1, vp_prev_frame(vp, bm, d))
               ELSE [op |-> "prev_frame", idx |-> vp.current_frame_idx - 1, x |-> -1, y |-> -1,
                     ret |-> FALSE, detect_faces |-> vp.detect_faces]

MaintainPrevBox(d) ==
    /\ Handle(maintain_prev_box(vp, bm, ui, d))
    /\ call' = IF CopyReachesLedger(vp)
               THEN [op |-> "copy_regions_to_next_frame", idx |-> bm.current_frame_idx,
                     x |-> -1, y |-> -1, ret |-> copy_regions_to_next_frame(bm).ret,
                     detect_faces |-> vp.detect_faces]
               ELSE call

\* BlurManager.reset() is called on the ledger; no handler of the program calls it.
Reset ==
    /\ UiIdle
    /\ bm' = reset(bm)
    /\ UNCHANGED <<vp, ui, worker, sink, queue, call>>

\* The index a navigation handler passes to get_frame.
NavIndex(h, value) ==
    IF h = "next" THEN vp.current_frame_idx + 1
    ELSE IF h = "prev" THEN vp.current_frame_idx - 1
    ELSE value

\* Beside a running export a navigation handler (next, prev, slider) is two
\* steps, the export thread being free to run between the cap.set and the
\* cap.read of its get_frame. NavSeek is the handler up to cap.set.
NavSeek(h, value) ==
    /\ UiIdle
    /\ h = "next" => vp.current_frame_idx < vp.frame_count - 1
    /\ h = "prev" => vp.current_frame_idx > 0
    /\ h = "slider" => vp.has_meta /\ value \in 0 .. (vp.frame_count - 1)
    /\ CanSeek(vp, NavIndex(h, value))
    /\ vp' = get_frame_seek(vp, NavIndex(h, value))
    /\ ui' = [ui EXCEPT !.nav = [h |-> h, idx |-> NavIndex(h, value)]]
    /\ UNCHANGED <<bm, worker, sink, queue, call>>

\* The handler from cap.read() on.
NavRead(d) ==
    /\ ui.nav.h \in {"next", "prev", "slider"}
    /\ LET r == get_frame_read(vp, bm, ui.nav.idx, d)
           u == [ui EXCEPT !.nav = NoNav]
           w == IF ui.nav.h = "next" THEN next_shown(r, u)
                ELSE IF ui.nav.h = "prev" THEN prev_shown(r, u)
                ELSE slider_shown(r, u)
       IN  /\ vp' = w.vp
           /\ bm' = w.bm
           /\ ui' = w.ui
    /\ UNCHANGED <<worker, sink, queue, call>>

\* A save_video that starts a thread whether or not an export is in progress.
SaveVideoUnguarded ==
    /\ UiIdle
    /\ vp.cap # NoCap
    /\ Len(queue) < MaxQueue
    /\ ui' = [ui EXCEPT !.is_processing = TRUE, !.polls = @ + 1]
    /\ worker' = [WorkerInit EXCEPT !.pc = "begin"]
    /\ UNCHANGED <<vp, bm, sink, queue, call>>

\* process_current_frame gets as far as the assignment of an empty automatic
\* collection: a frame is loaded, it has no cache entry, faces were detected and
\* the frame has no automatic collection.
RenderMaterializes(v, b) ==
    /\ v.current_frame # NoFrame
    /\ v.current_frame_idx \notin DOMAIN v.processed_frames
    /\ ~v.detected_faces.none
    /\ v.current_frame_idx \notin DOMAIN b.detected_regions

\* Beside a running export the render of a Next or Previous handler is a step
\* of its own where it materialises: process_current_frame reads
\* self.current_frame_idx and self.detected_faces again after its tests, and the
\* export thread's get_frame is free to assign both in between. NavReadTest is
\* the handler from cap.read() of its get_frame up to the tests of
\* process_current_frame; where the render does not materialise the handler
\* ends here, as in NavRead.
NavReadTest(d) ==
    /\ ui.nav.h \in {"next", "prev"}
    /\ LET r == get_frame_read(vp, bm, ui.nav.idx, d)
           u == [ui EXCEPT !.nav = NoNav]
           w == IF ui.nav.h = "next" THEN next_shown(r, u) ELSE prev_shown(r, u)
           v1 == IF ui.nav.h = "next"
                 THEN [r.vp EXCEPT !.processed_frames = Del(@, r.vp.current_frame_idx)]
                 ELSE r.vp
       IN  IF ~r.exc /\ r.ret # NoFrame /\ RenderMaterializes(v1, r.bm)
           THEN /\ vp' = v1
                /\ bm' = r.bm
                /\ ui' = [ui EXCEPT !.nav = [h |-> "render", idx |-> ui.nav.idx]]
           ELSE /\ vp' = w.vp
                /\ bm' = w.bm
                /\ ui' = w.ui
    /\ UNCHANGED <<worker, sink, queue, call>>

\* process_current_frame from the assignment of the empty collection on, with
\* the index, the frame and the detection result the VideoProcessor holds now.
\* enumerate(None) raises when the detection result has become None.
RenderStore ==
    /\ ui.nav.h = "render"
    /\ LET idx == vp.current_frame_idx
           b1 == [bm EXCEPT !.detected_regions =
                      Put(@, idx, Materialize(bm, vp.detected_faces.boxes))]
           blurred == apply_blur(b1, vp.current_frame, idx)
           processed == Annotated(blurred.bm, blurred.ret, idx)
       IN  IF vp.detected_faces.none
           THEN /\ bm' = [bm EXCEPT !.detected_regions = Put(@, idx, <<>>)]
                /\ UNCHANGED vp
           ELSE /\ bm' = blurred.bm
                /\ vp' = [vp EXCEPT !.processed_frames = Put(@, idx, processed),
                                    !.current_frame = blurred.frame]
    /\ ui' = [ui EXCEPT !.nav = NoNav]
    /\ UNCHANGED <<worker, sink, queue, call>>

\* FaceBlurUI.save_video: the thread is started and a check_progress is scheduled.
SaveVideo ==
    /\ UiIdle
    /\ vp.cap # NoCap
    /\ ~ui.is_processing
    /\ Len(queue) < MaxQueue
    /\ ui' = [ui EXCEPT !.is_processing = TRUE, !.polls = @ + 1]
    /\ worker' = [WorkerInit EXCEPT !.pc = "begin"]
    /\ UNCHANGED <<vp, bm, sink, queue, call>>

\* save_video up to the loop: self.fps is read (an AttributeError when no video
\* ever opened), the writer is constructed and the position is remembered.
WorkerBegin(sink_ok) ==
    /\ worker.pc = "begin"
    /\ IF vp.cap = NoCap
       THEN worker' = [worker EXCEPT !.pc = "post", !.result = FALSE] /\ UNCHANGED sink
       ELSE IF ~vp.has_meta
       THEN worker' = [worker EXCEPT !.pc = "post", !.exc = TRUE] /\ UNCHANGED sink
       ELSE /\ sink' = VideoWriter(sink_ok)
            /\ worker' = [worker EXCEPT !.current_pos = vp.current_frame_idx,
                                        !.n = vp.frame_count, !.i = 0,
                                        !.pc = IF vp.frame_count = 0 THEN "finally" ELSE "seek"]
    /\ UNCHANGED <<vp, bm, ui, queue, call>>

\* A pass that would end without moving on to the next index.
AdvanceStuck(w) == [w EXCEPT !.frame = NoFrame, !.pc = "seek"]

\* The end of one pass of `for i in range(self.frame_count)`.
Advance(w) ==
    [w EXCEPT !.i = @ + 1, !.frame = NoFrame,
              !.pc = IF w.i + 1 < w.n THEN "seek" ELSE "finally"]

\* frame = self.get_frame(i), up to cap.set; without a seek get_frame returns None.
WorkerSeek ==
    /\ worker.pc = "seek"
    /\ IF CanSeek(vp, worker.i)
       THEN /\ vp' = get_frame_seek(vp, worker.i)
            /\ worker' = [worker EXCEPT !.pc = "read"]
       ELSE /\ worker' = Advance(worker)
            /\ UNCHANGED vp
    /\ UNCHANGED <<bm, ui, sink, queue, call>>

\* frame = self.get_frame(i), from cap.read() on; if frame is None: continue
WorkerRead(d) ==
    /\ worker.pc = "read"
    /\ LET r == get_frame_read(vp, bm, worker.i, d)
       IN  /\ vp' = r.vp
           /\ bm' = r.bm
           /\ worker' = IF r.exc THEN [worker EXCEPT !.pc = "finally", !.exc = TRUE]
                        ELSE IF r.ret = NoFrame THEN Advance(worker)
                        ELSE [worker EXCEPT !.frame = r.ret, !.pc = "write"]
    /\ UNCHANGED <<ui, sink, queue, call>>

\* A write that would first turn the cached detection result of the index into
\* automatic regions, as a render does.
WorkerWriteDetected(raises) ==
    /\ worker.pc = "write"
    /\ LET det == IF worker.i \in DOMAIN vp.detection_results
                  THEN vp.detection_results[worker.i] ELSE NoneDet
           b1 == IF ~det.none /\ worker.i \notin DOMAIN bm.detected_regions
                 THEN [bm EXCEPT !.detected_regions =
                           [x \in DOMAIN @ \cup {worker.i} |->
                               IF x = worker.i
                               THEN [j \in 1 .. Len(det.boxes) |->
                                       <<det.boxes[j][1], det.boxes[j][2], det.boxes[j][3],
                                         det.boxes[j][4], bm.default_sigma, bm.default_ksize>>]
                               ELSE @[x]]]
                 ELSE bm
           a == apply_blur(b1, worker.frame, worker.i)
       IN  /\ bm' = a.bm
           /\ IF raises
              THEN /\ worker' = [worker EXCEPT !.pc = "finally", !.exc = TRUE]
                   /\ UNCHANGED <<sink, queue>>
              ELSE /\ sink' = Write(sink, a.ret)
                   /\ queue' = Append(queue, Progress(worker.i + 1, vp.frame_count))
                   /\ worker' = Advance(worker)
    /\ UNCHANGED <<vp, ui, call>>

\* apply_blur, out.write(processed), progress_callback(i + 1, frame_count).
\* raises: whether compositing or the write raises.
WorkerWrite(raises) ==
    /\ worker.pc = "write"
    /\ LET a == apply_blur(bm, worker.frame, worker.i)
       IN  /\ bm' = a.bm
           /\ IF raises
              THEN /\ worker' = [worker EXCEPT !.pc = "finally", !.exc = TRUE]
                   /\ UNCHANGED <<sink, queue>>
              ELSE /\ sink' = Write(sink, a.ret)
                   /\ queue' = Append(queue, Progress(worker.i + 1, vp.frame_count))
                   /\ worker' = Advance(worker)
    /\ UNCHANGED <<vp, ui, call>>

\* finally: out.release(); self.get_frame(current_pos), up to cap.set
WorkerFinally ==
    /\ worker.pc = "finally"
    /\ sink' = Release(sink)
    /\ IF CanSeek(vp, worker.current_pos)
       THEN /\ vp' = get_frame_seek(vp, worker.current_pos)
            /\ worker' = [worker EXCEPT !.pc = "restore"]
       ELSE /\ worker' = [worker EXCEPT !.pc = "post", !.result = ~worker.exc]
            /\ UNCHANGED vp
    /\ UNCHANGED <<bm, ui, queue, call>>

\* self.get_frame(current_pos), from cap.read() on; then save_video returns True
\* unless an exception is propagating.
WorkerRestore(d) ==
    /\ worker.pc = "restore"
    /\ LET r == get_frame_read(vp, bm, worker.current_pos, d)
       IN  /\ vp' = r.vp
           /\ bm' = r.bm
           /\ worker' = [worker EXCEPT !.pc = "post", !.exc = (@ \/ r.exc),
                                       !.result = ~(worker.exc \/ r.exc)]
    /\ UNCHANGED <<ui, sink, queue, call>>

\* process_video_thread after save_video returned or raised.
WorkerPost ==
    /\ worker.pc = "post"
    /\ queue' = Append(queue, Terminal(worker))
    /\ worker' = [worker EXCEPT !.pc = "exit"]
    /\ UNCHANGED <<vp, bm, ui, sink, call>>

\* finally: self.is_processing = False; the thread ends and its locals with it.
WorkerExit ==
    /\ worker.pc = "exit"
    /\ ui' = [ui EXCEPT !.is_processing = FALSE]
    /\ worker' = WorkerInit
    /\ sink' = SinkInit
    /\ UNCHANGED <<vp, bm, queue, call>>

FirstTerminal(q) ==
    IF \E k \in 1 .. Len(q) : IsTerminal(q[k])
    THEN CHOOSE k \in 1 .. Len(q) :
            IsTerminal(q[k]) /\ \A j \in 1 .. (k - 1) : ~IsTerminal(q[j])
    ELSE 0

\* check_progress: messages are taken until a terminal one (return) or the
\* queue is empty (queue.Empty is raised).
PollDrain ==
    /\ UiIdle
    /\ ui.polls > 0
    /\ LET k == FirstTerminal(queue)
       IN  IF k > 0
           THEN /\ queue' = SubSeq(queue, k + 1, Len(queue))
                /\ ui' = [ui EXCEPT !.polls = @ - 1]
           ELSE /\ queue' = <<>>
                /\ ui' = [ui EXCEPT !.poll_pc = "empty"]
    /\ UNCHANGED <<vp, bm, worker, sink, call>>

\* except queue.Empty: if self.is_processing: self.root.after(100, self.check_progress)
PollTest ==
    /\ ui.poll_pc = "empty"
    /\ ui' = [ui EXCEPT !.poll_pc = "idle",
                        !.polls = IF ui.is_processing THEN @ ELSE @ - 1]
    /\ UNCHANGED <<vp, bm, worker, sink, queue, call>>

\* The navigation handlers, each run as one step of the Tk thread; raises is the
\* set of detector outcomes the session allows.
Navigate(raises) ==
    \/ \E d \in raises : NextFrame(d)
    \/ \E d \in raises : PrevFrame(d)
    \/ \E value \in Frames, d \in raises : FrameSlider(value, d)

Open(oks, files, raises) ==
    \E path \in Videos, ok \in oks, unreadable \in files, d \in raises :
        OpenVideo(path, ok, unreadable, d)

Draw ==
    \/ \E p \in Points : CanvasClick(p[1], p[2])
    \/ \E p \in Points : CanvasRelease(p[1], p[2])
    \/ CancelDrawing

Retrofit == \E sigma \in Sigmas, ksize \in Ksizes \cup {ui.blur_ksize} : BlurSlider(sigma, ksize)

CopyForward(raises) == \E d \in raises : MaintainPrevBox(d)

Detect(raises) ==
    \/ \E d \in raises : ToggleAutoDetect(d)
    \/ \E d \in raises : RunDetection(d)

Worker ==
    \/ \E sink_ok \in BOOLEAN : WorkerBegin(sink_ok)
    \/ WorkerSeek
    \/ \E d \in DetOutcomes : WorkerRead(d)
    \/ \E raises \in BOOLEAN : WorkerWrite(raises)
    \/ WorkerFinally
    \/ \E d \in DetOutcomes : WorkerRestore(d)
    \/ WorkerPost
    \/ WorkerExit

Poll == PollDrain \/ PollTest

NavHandlers == {"next", "prev", "slider"}

\* Navigation beside the export thread.
NavigateBeside(handlers, raises) ==
    \/ \E h \in handlers, value \in Frames : NavSeek(h, value)
    \/ \E d \in raises : NavRead(d)

\* The render of a navigation handler beside the export thread.
RenderBeside(raises) ==
    \/ \E d \in raises : NavReadTest(d)
    \/ RenderStore

\* The whole program: every handler, the export thread and the poller.
Next ==
    \/ Open(BOOLEAN, UnreadableSets, DetOutcomes)
    \/ Navigate(DetOutcomes)
    \/ NavigateBeside(NavHandlers, DetOutcomes)
    \/ RenderBeside(DetOutcomes)
    \/ Draw
    \/ Retrofit
    \/ CopyForward(DetOutcomes)
    \/ Detect(DetOutcomes)
    \/ SaveVideo
    \/ Worker
    \/ Poll

Spec == Init /\ [][Next]_vars

\* An editing session: the operator opens a file, moves through it, draws,
\* clicks regions away, copies them forward and moves the blur sliders.
NextEdit ==
    \/ Open({TRUE}, UnreadableSets, {FALSE})
    \/ Navigate({FALSE})
    \/ Draw
    \/ Retrofit
    \/ CopyForward({FALSE})

SpecEdit == Init /\ [][NextEdit]_vars

\* A detection session: the operator opens files, moves through them and switches
\* and re-runs detection; the detector may raise.
NextDetect ==
    \/ Open(BOOLEAN, UnreadableSets, DetOutcomes)
    \/ Navigate(DetOutcomes)
    \/ Detect(DetOutcomes)

SpecDetect == Init /\ [][NextDetect]_vars

\* An export session: the operator opens a file whose frames can all be read or
\* whose first frame cannot, steps through it and exports, the export thread
\* running beside the handlers. The messages stay in the queue.
NextExport ==
    \/ Open({TRUE}, {{}, {0}}, {FALSE})
    \/ NavigateBeside({"next", "prev"}, {FALSE})
    \/ SaveVideo
    \/ Worker

SpecExport == Init /\ [][NextExport]_vars

\* A session that mixes editing with detection: the operator opens a file, moves
\* through it, switches and re-runs detection, draws, clicks regions away and
\* copies them forward.
NextRedetect ==
    \/ Open({TRUE}, {{}}, {FALSE})
    \/ Navigate({FALSE})
    \/ Detect({FALSE})
    \/ Draw
    \/ CopyForward({FALSE})

SpecRedetect == Init /\ [][NextRedetect]_vars

\* A session that ends in an export: the operator opens a file, switches
\* detection and moves through the file, then chooses Save Video once; regions
\* are drawn and clicked away before the export and while its thread runs. The
\* detector does not raise and the writer opens; compositing or writing may fail.
NoExportYet == worker.pc = "idle" /\ queue = <<>>

NextPublish ==
    \/ NoExportYet /\ Open({TRUE}, {{}}, {FALSE})
    \/ NoExportYet /\ \E d \in {FALSE} : ToggleAutoDetect(d)
    \/ NoExportYet /\ Navigate({FALSE})
    \/ (NoExportYet \/ worker.pc # "idle") /\ Draw
    \/ NoExportYet /\ SaveVideo
    \/ \E sink_ok \in {TRUE} : WorkerBegin(sink_ok)
    \/ WorkerSeek
    \/ \E d \in {FALSE} : WorkerRead(d)
    \/ \E raises \in BOOLEAN : WorkerWrite(raises)
    \/ WorkerFinally
    \/ \E d \in {FALSE} : WorkerRestore(d)
    \/ WorkerPost
    \/ WorkerExit

SpecPublish == Init /\ [][NextPublish]_vars

\* An export session seen from the message queue: the operator opens a file or
\* a long file, chooses Save Video, and check_progress polls the queue while the
\* export thread runs.
NextProgress ==
    \/ Open({TRUE}, {{}, LongFile}, {FALSE})
    \/ SaveVideo
    \/ Worker
    \/ Poll

SpecProgress == Init /\ [][NextProgress]_vars

\* A session around BlurManager.reset: the operator opens a file, draws, clicks
\* regions away and moves the blur sliders, and the ledger is reset.
NextReset ==
    \/ Open({TRUE}, {{}}, {FALSE})
    \/ Draw
    \/ Retrofit
    \/ Reset

SpecReset == Init /\ [][NextReset]_vars

\* A session in which regions are clicked away and everything that might bring
\* them back follows: the operator opens a file, moves through it, switches and
\* re-runs detection, clicks, moves the blur sliders and copies forward, then
\* chooses Save Video once and the export runs to its end.
NextPersist ==
    \/ NoExportYet /\ Open({TRUE}, {{}}, {FALSE})
    \/ NoExportYet /\ Navigate({FALSE})
    \/ NoExportYet /\ Detect({FALSE})
    \/ NoExportYet /\ \E p \in Points : CanvasClick(p[1], p[2])
    \/ NoExportYet /\ CancelDrawing
    \/ NoExportYet /\ Retrofit
    \/ NoExportYet /\ CopyForward({FALSE})
    \/ NoExportYet /\ SaveVideo
    \/ \E sink_ok \in {TRUE} : WorkerBegin(sink_ok)
    \/ WorkerSeek
    \/ \E d \in {FALSE} : WorkerRead(d)
    \/ \E raises \in {FALSE} : WorkerWrite(raises)
    \/ WorkerFinally
    \/ \E d \in {FALSE} : WorkerRestore(d)
    \/ WorkerPost
    \/ WorkerExit

SpecPersist == Init /\ [][NextPersist]_vars

\* An export beside which the operator steps through the file: a file is
\* opened and regions are clicked away, then Save Video is chosen once and Next
\* and Previous are pressed while the export thread runs, their renders
\* interleaving with the export's frame loads.
NextRenderBeside ==
    \/ NoExportYet /\ Open({TRUE}, {{}}, {FALSE})
    \/ NoExportYet /\ \E p \in Points : CanvasClick(p[1], p[2])
    \/ NoExportYet /\ CancelDrawing
    \/ NoExportYet /\ SaveVideo
    \/ worker.pc # "idle" /\ \E h \in {"next", "prev"} : NavSeek(h, 0)
    \/ RenderBeside({FALSE})
    \/ \E sink_ok \in {TRUE} : WorkerBegin(sink_ok)
    \/ WorkerSeek
    \/ \E d \in {FALSE} : WorkerRead(d)
    \/ \E raises \in {FALSE} : WorkerWrite(raises)
    \/ WorkerFinally
    \/ \E d \in {FALSE} : WorkerRestore(d)
    \/ WorkerPost
    \/ WorkerExit

SpecRenderBeside == Init /\ [][NextRenderBeside]_vars

\* An export session in which the export thread keeps being scheduled: the
\* operator opens a file that supplies all of its frames, all but the first or
\* none of them, and chooses Save Video; the writer may fail to open, the
\* detector, the compositing and the write may raise, and check_progress polls.
\* Every call of the thread returns, so a thread that is not finished takes its
\* next step.
NextTerminate ==
    \/ Open({TRUE}, UnreadableSets, {FALSE})
    \/ SaveVideo
    \/ Worker
    \/ Poll

SpecTerminate == Init /\ [][NextTerminate]_vars /\ WF_vars(Worker)

(********************************* claims **********************************)
\* Every region of a frame-keyed region map carries (sigma, ksize).
AllStamped(m, sigma, ksize) ==
    \A f \in DOMAIN m : \A j \in 1 .. Len(m[f]) : m[f][j][5] = sigma /\ m[f][j][6] = ksize

\* Two region maps have the same frames, and on each frame the same rectangles
\* in the same order.
SameRects(m1, m2) ==
    /\ DOMAIN m1 = DOMAIN m2
    /\ \A f \in DOMAIN m1 : Rects(m1[f]) = Rects(m2[f])

\* What update_blur_params(sigma, ksize) has to make of ledger b to give b2.
RetrofitsAll(b, b2, sigma, ksize) ==
    /\ AllStamped(b2.detected_regions, sigma, ksize)
    /\ AllStamped(b2.manual_regions, sigma, ksize)
    /\ SameRects(b.detected_regions, b2.detected_regions)
    /\ SameRects(b.manual_regions, b2.manual_regions)

\* C1: whenever a blur slider is moved, the update_blur_params(s, k) its handler
\* runs leaves every region of every frame, automatic and manual alike, with
\* sigma s and kernel size k, and leaves rectangles, order and frame keys alone.
C1_UpdateRewritesBothCollections ==
    [][\A sigma \in Sigmas, ksize \in Ksizes \cup {ui.blur_ksize} :
          BlurSlider(sigma, ksize) =>
              RetrofitsAll(bm, update_blur_params(bm, sigma, Odd(ksize)), sigma, Odd(ksize))]_vars

\* What frame i renders to from the ledger, the defaults and the detection
\* result as they are now: process_current_frame on a cache miss, with the
\* detection result the detection cache holds for i (None when it holds none).
RenderNow(v, b, i) ==
    LET det == IF i \in DOMAIN v.detection_results THEN v.detection_results[i] ELSE NoneDet
        b1 == IF ~det.none /\ i \notin DOMAIN b.detected_regions
              THEN [b EXCEPT !.detected_regions = Put(@, i, Materialize(b, det.boxes))]
              ELSE b
    IN  [blurs |-> BlurPasses(b1, i),
         auto_boxes |-> Rects(RegionsOf(b1.detected_regions, i)),
         manual_boxes |-> Rects(RegionsOf(b1.manual_regions, i))]

\* C2: every entry of the render cache is current: the blurs and outlines cached
\* for frame i are those that the regions of i, the defaults and the detection
\* result of i give now, because every change to one of them dropped the entry.
C2_RenderCacheCoherent ==
    \A i \in DOMAIN vp.processed_frames :
        LET now == RenderNow(vp, bm, i)
            cached == vp.processed_frames[i]
        IN  /\ cached.blurs = now.blurs
            /\ cached.auto_boxes = now.auto_boxes
            /\ cached.manual_boxes = now.manual_boxes

\* save_video is running on the export thread.
ExportRunning == worker.pc \in {"begin", "seek", "read", "write", "finally", "restore"}

\* A navigation handler (next, previous, frame slider, copy-forward) moves the
\* shared capture handle.
SourceAccess ==
    \/ \E h \in NavHandlers, value \in Frames : NavSeek(h, value)
    \/ \E d \in DetOutcomes : NextFrame(d)
    \/ \E d \in DetOutcomes : PrevFrame(d)
    \/ \E value \in Frames, d \in DetOutcomes : FrameSlider(value, d)
    \/ \E d \in DetOutcomes : MaintainPrevBox(d)

\* C3: while save_video runs on the export thread no second export starts and no
\* navigation handler moves the shared source, so the current frame and its index change
\* under the export only by the export's own steps.
C3_SourceSerializedDuringExport ==
    [][ExportRunning => ~(SaveVideo \/ SourceAccess)]_vars

\* The export thread takes a step of save_video from the named position.
ExportStep(pc) == worker.pc = pc /\ worker' # worker

\* The indices of the frames the sink received, in the order it received them.
WrittenIdx == [k \in 1 .. Len(sink.writes) |-> sink.writes[k].frame.idx]

\* Where the loop stands: inside it the index is one of 0..n-1 and every frame
\* written so far has a smaller index than the next; it ends, unless an
\* exception ended it, after index n-1.
LoopInRange ==
    /\ worker.pc \in {"seek", "read", "write"} => worker.i \in 0 .. (worker.n - 1)
    /\ worker.pc = "write" => worker.frame # NoFrame /\ worker.frame.idx = worker.i
    /\ worker.pc = "finally" /\ ~worker.exc => worker.i = worker.n
    /\ \A k \in 1 .. Len(sink.writes) :
          /\ WrittenIdx[k] < worker.i
          /\ \A j \in 1 .. (k - 1) : WrittenIdx[j] < WrittenIdx[k]

\* The pass for index i goes on to the pass for i + 1, or ends the loop after n - 1.
PassEnds ==
    /\ worker'.i = worker.i + 1
    /\ ~worker'.exc
    /\ worker'.pc = IF worker.i + 1 < worker.n THEN "seek" ELSE "finally"

\* The source supplies the frame of index i.
Supplies(cap, i) == Read(Seek(cap, i)) # NoFrame

\* Fetching index i: a frame the source cannot supply is passed over with no
\* write and no progress report; a frame it supplies goes on to be written.
ReadPass ==
    /\ ExportStep("seek") => worker'.pc = "read" /\ worker'.i = worker.i
    /\ ExportStep("read") =>
          /\ sink' = sink
          /\ queue' = queue
          /\ IF Supplies(vp.cap, worker.i)
             THEN \/ worker'.exc
                  \/ /\ worker'.pc = "write"
                     /\ worker'.i = worker.i
                     /\ worker'.frame = Read(Seek(vp.cap, worker.i))
             ELSE PassEnds

\* Writing index i: one composited frame reaches the sink, then progress
\* (i + 1, frame_count) is reported.
WritePass ==
    ExportStep("write") =>
        \/ worker'.exc /\ sink' = sink /\ queue' = queue
        \/ /\ sink'.writes = Append(sink.writes,
                                    [frame |-> worker.frame, blurs |-> BlurPasses(bm, worker.i)])
           /\ queue' = Append(queue, [type |-> "progress",
                                      value |-> ((worker.i + 1) * 100) \div vp.frame_count])
           /\ PassEnds

\* C4: the export loop visits 0..frame_count-1 in increasing order; a frame the
\* source supplies is written once and its progress reported, a frame it cannot
\* supply is passed over without ending the loop, so the sink receives the
\* readable frames in strictly increasing index order.
C4_ExportVisitsFramesInOrder == [](LoopInRange) /\ [][ReadPass /\ WritePass]_vars

\* C5: no step of the export changes the detection cache, whether detection
\* is enabled or not.
C5_ExportLeavesDetectionCache ==
    [][ExportRunning /\ worker' # worker => vp'.detection_results = vp.detection_results]_vars

\* C6: when save_video leaves its finally block, after a normal end of the loop
\* or after an exception in it, the current frame index is the one save_video
\* remembered before the loop.
C6_ExportRestoresPosition ==
    [][worker' # worker /\ worker'.pc = "post" /\ worker.pc \in {"finally", "restore"} =>
          vp'.current_frame_idx = worker.current_pos]_vars

\* A writer is released by the first statement of the finally block, and not
\* before: from then on it has been released exactly once.
ReleasedOnceOnExit ==
    sink.created => sink.released = IF worker.pc \in {"restore", "post", "exit"} THEN 1 ELSE 0

\* C7: the writer an export constructed is released exactly once however
\* save_video ends, and receives no frame after its release.
C7_SinkReleasedOnce ==
    [](ReleasedOnceOnExit) /\ [][sink.released > 0 /\ sink'.created => sink'.writes = sink.writes]_vars

\* save_video ended through an exception after a frame was written, and the
\* writer was released.
C7_Witness ==
    /\ worker.pc = "post"
    /\ worker.exc
    /\ sink.opened
    /\ sink.released = 1
    /\ Len(sink.writes) > 0

\* C8: when the writer could not open its file, nothing was written to it and
\* the thread posts an 'error' message, not a 'complete' one.
C8_SinkOpenFailureReported ==
    [][ExportStep("post") /\ sink.created /\ ~sink.opened =>
          /\ sink.writes = <<>>
          /\ ~worker.result
          /\ Len(queue') = Len(queue) + 1
          /\ queue'[Len(queue')].type = "error"]_vars

\* C9: a successful open_video leaves the automatic-region map, the
\* manual-region map and the render cache empty, and the detection cache with
\* nothing but what it detected on the first frame of the file just opened.
C9_OpenClearsPerFrameMaps ==
    [][\A path \in Videos, unreadable \in UnreadableSets, d \in DetOutcomes :
          OpenVideo(path, TRUE, unreadable, d) =>
              LET r == open_video([vp EXCEPT !.detect_faces = ui.auto_detect], bm,
                                  path, TRUE, unreadable, d)
              IN  r.ret =>
                      /\ r.bm.detected_regions = EmptyMap
                      /\ r.bm.manual_regions = EmptyMap
                      /\ r.vp.processed_frames = EmptyMap
                      /\ DOMAIN r.vp.detection_results \subseteq {0}]_vars

\* Some region of the list contains the point.
AnyContains(regions, x, y) == \E j \in 1 .. Len(regions) : Contains(regions[j], x, y)

\* An automatic and a manual region of the ledger's current frame both contain the point.
BothContain(b, x, y) ==
    /\ AnyContains(RegionsOf(b.detected_regions, b.current_frame_idx), x, y)
    /\ AnyContains(RegionsOf(b.manual_regions, b.current_frame_idx), x, y)

\* C10: a click on a point that an automatic and a manual region of the frame
\* both contain removes exactly one automatic region containing it,
\* toggle_region returns true, and the manual regions stay as they were.
C10_ToggleTakesAutomaticFirst ==
    [][\A p \in Points :
          CanvasClick(p[1], p[2]) /\ ClickReachesLedger(vp) /\ BothContain(bm, p[1], p[2]) =>
              LET idx == bm.current_frame_idx
                  auto == bm.detected_regions[idx]
              IN  /\ call'.ret
                  /\ bm'.manual_regions = bm.manual_regions
                  /\ DOMAIN bm'.detected_regions = DOMAIN bm.detected_regions
                  /\ \A f \in DOMAIN bm.detected_regions \ {idx} :
                        bm'.detected_regions[f] = bm.detected_regions[f]
                  /\ \E j \in 1 .. Len(auto) :
                        /\ Contains(auto[j], p[1], p[2])
                        /\ bm'.detected_regions[idx] = RemoveAt(auto, j)]_vars

\* The last call into the ledger was a toggle that returned true at a point
\* which a manual region of that frame, still there, contains.
C10_Witness ==
    /\ call.op = "toggle_region"
    /\ call.ret
    /\ AnyContains(RegionsOf(bm.manual_regions, call.idx), call.x, call.y)
    /\ Len(RegionsOf(bm.detected_regions, call.idx)) = 1

\* The point lies in the rectangle of the region or on its edge.
Covers(region, x, y) ==
    region[1] <= x /\ x <= region[3] /\ region[2] <= y /\ y <= region[4]

\* The position of the first region of the list covering the point, 0 when none does.
FirstCovering(regions, x, y) ==
    LET hits == {j \in 1 .. Len(regions) : Covers(regions[j], x, y)}
    IN  IF hits = {} THEN 0 ELSE CHOOSE j \in hits : \A k \in hits : j <= k

\* A region map changed on frame idx only, where the region at position j left the list.
OnlyDropped(m, m2, idx, j) ==
    /\ DOMAIN m2 = DOMAIN m
    /\ \A f \in DOMAIN m \ {idx} : m2[f] = m[f]
    /\ Len(m2[idx]) = Len(m[idx]) - 1
    /\ \A k \in 1 .. Len(m2[idx]) : m2[idx][k] = m[idx][IF k < j THEN k ELSE k + 1]

\* C11: the toggle_region a click runs removes one region at most, the first in
\* list order that covers the point (edges included), looking through the
\* automatic regions of the current frame before the manual ones, and returns
\* true; when no region of the frame covers the point it returns false and
\* changes nothing; the regions of the other frames stay as they were.
C11_ToggleRemovesFirstHit ==
    [][\A p \in Points :
          CanvasClick(p[1], p[2]) /\ ClickReachesLedger(vp) =>
              LET idx == bm.current_frame_idx
                  t == toggle_region(bm, p[1], p[2])
                  ja == FirstCovering(RegionsOf(bm.detected_regions, idx), p[1], p[2])
                  jm == FirstCovering(RegionsOf(bm.manual_regions, idx), p[1], p[2])
              IN  /\ call'.ret = t.ret
                  /\ t.ret = (ja > 0 \/ jm > 0)
                  /\ ja > 0 =>
                        /\ OnlyDropped(bm.detected_regions, t.bm.detected_regions, idx, ja)
                        /\ t.bm.manual_regions = bm.manual_regions
                  /\ ja = 0 /\ jm > 0 =>
                        /\ OnlyDropped(bm.manual_regions, t.bm.manual_regions, idx, jm)
                        /\ t.bm.detected_regions = bm.detected_regions
                  /\ ja = 0 /\ jm = 0 => t.bm = bm
                  /\ t.ret => /\ Rects(RegionsOf(bm'.detected_regions, idx)) =
                                     Rects(RegionsOf(t.bm.detected_regions, idx))
                              /\ bm'.manual_regions = t.bm.manual_regions]_vars

\* The last click was on the shared edge of two automatic regions and took the
\* first of them: the one left is the second box the detector reported.
C11_WitnessEdge ==
    /\ call.op = "toggle_region"
    /\ call.ret
    /\ call.x = 10
    /\ call.idx \in DOMAIN bm.detected_regions
    /\ Rects(bm.detected_regions[call.idx]) = <<BoxB>>


\* How many times the list holds the region.
Count(e, s) == Cardinality({j \in 1 .. Len(s) : s[j] = e})

\* Every region that the copy from frame cur added to frame cur + 1 of map m1,
\* giving m2, is held there once.
AddedOnce(m1, m2, cur) ==
    \A j \in 1 .. Len(RegionsOf(m1, cur)) :
        LET e == m1[cur][j]
        IN  ~InSeq(e, RegionsOf(m1, cur + 1)) => Count(e, RegionsOf(m2, cur + 1)) = 1

\* C12: when the copy-forward handler has copied the regions of frame i, a
\* second copy_regions_to_next_frame for the same frame straight after the first
\* adds nothing: both collections of frame i + 1 are as the first call left them,
\* and no copied region is held there twice.
C12_CopyForwardTwiceAddsNothing ==
    [][\A d \in DetOutcomes :
          MaintainPrevBox(d) /\ CopyReachesLedger(vp) =>
              LET cur == bm.current_frame_idx
                  c1 == copy_regions_to_next_frame(bm)
                  c2 == copy_regions_to_next_frame(c1.bm)
              IN  /\ call'.ret = c1.ret
                  /\ c1.ret =>
                        /\ c2.ret
                        /\ c2.bm = c1.bm
                        /\ AddedOnce(bm.detected_regions, c2.bm.detected_regions, cur)
                        /\ AddedOnce(bm.manual_regions, c2.bm.manual_regions, cur)
                        /\ bm'.manual_regions = c1.bm.manual_regions
                        /\ RegionsOf(bm.detected_regions, cur) # <<>> =>
                              bm'.detected_regions = c1.bm.detected_regions]_vars

\* The regions of frame 0 were copied, the first box was then clicked away on
\* frame 0 and the frame copied again: frame 1 already held what the second copy
\* brought and holds each box once.
C12_WitnessCopiedAgain ==
    /\ call.op = "copy_regions_to_next_frame"
    /\ call.ret
    /\ call.idx = 0
    /\ Rects(RegionsOf(bm.detected_regions, 0)) = <<BoxB>>
    /\ Rects(RegionsOf(bm.detected_regions, 1)) = <<BoxA, BoxB>>


\* The frame has no region to copy: each collection lacks the frame or holds an
\* empty list for it.
NothingToCopy(b, idx) ==
    /\ RegionsOf(b.detected_regions, idx) = <<>>
    /\ RegionsOf(b.manual_regions, idx) = <<>>

\* C13: a copy-forward from a frame with no automatic and no manual region makes
\* copy_regions_to_next_frame return false and leave both maps as they were, with
\* no key for the next frame created in either.
C13_CopyForwardOfNothing ==
    [][\A d \in DetOutcomes :
          MaintainPrevBox(d) /\ CopyReachesLedger(vp) /\ NothingToCopy(bm, bm.current_frame_idx) =>
              LET c == copy_regions_to_next_frame(bm)
              IN  /\ ~c.ret
                  /\ ~call'.ret
                  /\ c.bm.detected_regions = bm.detected_regions
                  /\ c.bm.manual_regions = bm.manual_regions
                  /\ DOMAIN c.bm.detected_regions = DOMAIN bm.detected_regions
                  /\ DOMAIN c.bm.manual_regions = DOMAIN bm.manual_regions
                  /\ bm'.manual_regions = bm.manual_regions]_vars

\* The last call into the ledger was a copy that returned false from frame 0,
\* whose automatic list is there but was emptied, and no manual key exists for
\* frame 1.
C13_WitnessEmptied ==
    /\ call.op = "copy_regions_to_next_frame"
    /\ ~call.ret
    /\ call.idx = 0
    /\ 0 \in DOMAIN bm.detected_regions
    /\ bm.detected_regions[0] = <<>>
    /\ 1 \notin DOMAIN bm.manual_regions


\* get_frame(frame_idx) finds an entry of the detection cache for the index: it
\* hands that entry on as the detection result, leaves the cache as it was and
\* does not call the detector, which would raise under outcome d.
ServedFromCache(v, b, frame_idx, d) ==
    LET r == get_frame(v, b, frame_idx, d)
    IN  /\ ~r.exc
        /\ r.vp.detection_results = v.detection_results
        /\ r.vp.detected_faces = v.detection_results[frame_idx]

\* The index a navigation step passes to get_frame, -1 when the step is none.
Requested(d) ==
    IF NextFrame(d) /\ vp.current_frame_idx < vp.frame_count - 1 THEN vp.current_frame_idx + 1
    ELSE IF PrevFrame(d) /\ vp.current_frame_idx > 0 THEN vp.current_frame_idx - 1
    ELSE IF \E value \in Frames : FrameSlider(value, d) THEN call'.idx
    ELSE -1

\* C14 as stated: whenever a navigation handler calls get_frame(i) and the
\* detection cache holds an entry for i, that entry becomes the detection result,
\* the cache is unchanged and the detector is not called, whether detection is
\* enabled or not.
C14_CacheHitReturnsEntry ==
    [][\A d \in DetOutcomes :
          LET i == Requested(d)
          IN  i \in DOMAIN vp.detection_results =>
                  /\ ServedFromCache(vp, bm, i, d)
                  /\ vp'.detection_results = vp.detection_results
                  /\ vp'.detected_faces = vp.detection_results[i]]_vars

\* C14 amended: the same whenever get_frame(i) reads its frame; a get_frame whose
\* read fails returns before it looks into the cache and leaves the detection
\* result of the frame shown before.
C14_CacheHitOnReadFrame ==
    [][\A d \in DetOutcomes :
          LET i == Requested(d)
          IN  i \in DOMAIN vp.detection_results /\ Supplies(vp.cap, i) =>
                  /\ ServedFromCache(vp, bm, i, d)
                  /\ vp'.detection_results = vp.detection_results
                  /\ vp'.detected_faces = vp.detection_results[i]]_vars

\* With detection disabled the last get_frame returned a frame for an index the
\* cache holds, and the detection result is the cached one, two boxes.
C14_WitnessHitWhileDisabled ==
    /\ call.op = "get_frame"
    /\ call.ret
    /\ ~call.detect_faces
    /\ call.idx \in DOMAIN vp.detection_results
    /\ vp.detected_faces = vp.detection_results[call.idx]
    /\ Len(vp.detected_faces.boxes) = 2


\* C15: whenever a navigation handler calls get_frame(i), the frame is read and
\* the detection cache holds no entry for i: with detection enabled the
\* detector's result is stored for i and becomes the detection result; with
\* detection disabled None is stored for i, so that i is cached from then on
\* and a later get_frame(i) does not call the detector.
C15_CacheMissStoresResult ==
    [][\A d \in DetOutcomes :
          LET i == Requested(d)
              r == get_frame(vp, bm, i, d)
          IN  i \in Frames /\ i \notin DOMAIN vp.detection_results /\ Supplies(vp.cap, i) =>
                  IF vp.detect_faces
                  THEN \/ d /\ r.exc
                       \/ /\ ~r.exc
                          /\ r.vp.detection_results =
                                Put(vp.detection_results, i, detect_faces(r.ret, FALSE).det)
                          /\ r.vp.detected_faces = r.vp.detection_results[i]
                  ELSE /\ ~r.exc
                       /\ r.vp.detected_faces = NoneDet
                       /\ r.vp.detection_results = Put(vp.detection_results, i, NoneDet)]_vars


\* The automatic-region map as the step's ledger calls other than the render
\* leave it: a copy-forward adds its copies before the frame is rendered.
BeforeRender ==
    IF (\E d \in DetOutcomes : MaintainPrevBox(d)) /\ CopyReachesLedger(vp)
    THEN copy_regions_to_next_frame(bm).bm.detected_regions
    ELSE bm.detected_regions

\* One region per box, in the order of the boxes, stamped (sigma, ksize).
StampedBoxes(boxes, sigma, ksize) ==
    [j \in 1 .. Len(boxes) |->
        <<boxes[j][1], boxes[j][2], boxes[j][3], boxes[j][4], sigma, ksize>>]

\* C16: a render gives a frame an automatic-region entry only when the frame
\* has none and its detection result holds at least one box, and then the entry
\* holds one region per box in detection order with the defaults of that
\* moment; a detection result that is None or holds no box creates no entry.
C16_MaterializeOnlyNonEmpty ==
    [][\A idx \in DOMAIN bm'.detected_regions \ DOMAIN BeforeRender :
          /\ idx = vp'.current_frame_idx
          /\ ~vp'.detected_faces.none
          /\ Len(vp'.detected_faces.boxes) > 0
          /\ bm'.detected_regions[idx] =
                StampedBoxes(vp'.detected_faces.boxes, bm'.default_sigma, bm'.default_ksize)]_vars


\* The automatic-region map as the step's own ledger call leaves it, before the
\* frame is rendered: a click takes a region away, a copy-forward adds copies.
AfterLedgerCall ==
    IF (\E p \in Points : CanvasClick(p[1], p[2])) /\ ClickReachesLedger(vp)
    THEN toggle_region(bm, call'.x, call'.y).bm.detected_regions
    ELSE BeforeRender

\* C17: once a frame has an automatic-region entry, be it materialised, emptied
\* by clicks or brought by a copy-forward, no render, revisit or re-run of the
\* detection adds, removes or replaces a region of it: a step changes the entry
\* only by its own toggle or copy.
C17_MaterializeKeepsEntry ==
    [][\A idx \in DOMAIN AfterLedgerCall :
          /\ idx \in DOMAIN bm'.detected_regions
          /\ bm'.detected_regions[idx] = AfterLedgerCall[idx]]_vars

\* Frame 1 is shown and rendered with the two regions a copy-forward brought,
\* while its own detection result, recorded in the cache, holds no box.
C17_WitnessCopiedEntryKept ==
    /\ vp.current_frame_idx = 1
    /\ 1 \in DOMAIN vp.processed_frames
    /\ 1 \in DOMAIN vp.detection_results
    /\ vp.detection_results[1] = SomeDet(<<>>)
    /\ vp.detected_faces = SomeDet(<<>>)
    /\ 1 \in DOMAIN bm.detected_regions
    /\ Rects(bm.detected_regions[1]) = <<BoxA, BoxB>>
    /\ vp.processed_frames[1].auto_boxes = <<BoxA, BoxB>>


\* k made odd: k itself when odd, k + 1 when even.
NextOdd(k) == IF k % 2 = 1 THEN k ELSE k + 1

\* Every region of the map has an odd kernel size.
OddKernels(m) == \A f \in DOMAIN m : \A j \in 1 .. Len(m[f]) : m[f][j][6] % 2 = 1

\* The defaults and every region of the ledger have an odd kernel size.
LedgerOdd ==
    /\ bm.default_ksize % 2 = 1
    /\ OddKernels(bm.detected_regions)
    /\ OddKernels(bm.manual_regions)

\* A blur slider moved to kernel size k leaves the defaults and every manual
\* region with k made odd.
SliderStoresOdd ==
    \A sigma \in Sigmas, ksize \in Ksizes \cup {ui.blur_ksize} :
        BlurSlider(sigma, ksize) =>
            /\ bm'.default_ksize = NextOdd(ksize)
            /\ \A f \in DOMAIN bm'.manual_regions :
                  \A j \in 1 .. Len(bm'.manual_regions[f]) :
                      bm'.manual_regions[f][j][6] = NextOdd(ksize)

\* A drag that adds a manual region stores it with the slider's size made odd,
\* and a render that materialises a frame stamps the default size, which is odd.
NewRegionsStoreOdd ==
    /\ \A f \in DOMAIN bm'.manual_regions :
          Len(bm'.manual_regions[f]) > Len(RegionsOf(bm.manual_regions, f))
          /\ (\E p \in Points : CanvasRelease(p[1], p[2])) =>
              bm'.manual_regions[f][Len(bm'.manual_regions[f])][6] = NextOdd(ui.blur_ksize)
    /\ \A f \in DOMAIN bm'.detected_regions \ DOMAIN BeforeRender :
          \A j \in 1 .. Len(bm'.detected_regions[f]) :
              bm'.detected_regions[f][j][6] = NextOdd(bm'.default_ksize)

\* C18: whatever kernel size k reaches the ledger or the defaults, through a
\* blur slider, a manual draw or a materialisation, what is stored is k when k
\* is odd and k + 1 when it is even; so the defaults and every region of the
\* ledger have an odd kernel size at all times.
C18_StoredKernelOdd ==
    [](LedgerOdd) /\ [][SliderStoresOdd /\ NewRegionsStoreOdd]_vars

\* The kernel-size slider was moved to the even size 8: the defaults, a manual
\* region and a region materialised afterwards all carry 9.
C18_WitnessEvenInput ==
    /\ bm.default_ksize = 9
    /\ \E f \in DOMAIN bm.manual_regions :
          Len(bm.manual_regions[f]) > 0 /\ bm.manual_regions[f][1][6] = 9
    /\ \E f \in DOMAIN bm.detected_regions :
          Len(bm.detected_regions[f]) > 0 /\ bm.detected_regions[f][1][6] = 9


\* Every manual region of the ledger has x1 <= x2 and y1 <= y2.
ManualNormalized ==
    \A f \in DOMAIN bm.manual_regions :
        \A j \in 1 .. Len(bm.manual_regions[f]) :
            LET r == bm.manual_regions[f][j]
            IN  r[1] <= r[3] /\ r[2] <= r[4]

\* The smaller and the larger of two coordinates.
Lo(a, b) == IF a < b THEN a ELSE b
Hi(a, b) == IF a < b THEN b ELSE a

\* A drag from the press point to the release point that adds a region adds the
\* rectangle spanned by the two points, each axis sorted on its own.
DragStoresSorted ==
    \A p \in Points :
        CanvasRelease(p[1], p[2]) /\ ReleaseReachesLedger(vp, ui, p[1], p[2]) =>
            LET rs == RegionsOf(bm'.manual_regions, vp.current_frame_idx)
            IN  /\ Len(rs) = Len(RegionsOf(bm.manual_regions, vp.current_frame_idx)) + 1
                /\ Rects(rs)[Len(rs)] = <<Lo(ui.start_x, p[1]), Lo(ui.start_y, p[2]),
                                           Hi(ui.start_x, p[1]), Hi(ui.start_y, p[2])>>

\* C19: whichever way the drag runs, the manual region stored for it has
\* x1 <= x2 and y1 <= y2, the minimum and maximum being taken per axis; so every
\* manual region of the ledger satisfies x1 <= x2 and y1 <= y2.
C19_ManualRegionNormalized ==
    [](ManualNormalized) /\ [][DragStoresSorted]_vars

\* The last ledger call stored a drag that ran from (0, 10) to (10, 0), rising
\* on one axis and falling on the other, as the rectangle (0, 0, 10, 10).
C19_WitnessMixedDrag ==
    /\ call.op = "add_manual_region_to_frame"
    /\ call.x = 10
    /\ call.y = 0
    /\ ui.start_x = 0
    /\ ui.start_y = 10
    /\ ~ui.drawing
    /\ Rects(RegionsOf(bm.manual_regions, call.idx)) = <<BoxA>>


\* The passes that blurring the regions of a list one after the other, in list
\* order, makes: the region's rectangle and sigma, its kernel size made odd.
InListOrder(passes, regions) ==
    /\ Len(passes) = Len(regions)
    /\ \A j \in 1 .. Len(regions) :
          /\ Rects(passes)[j] = Rects(regions)[j]
          /\ passes[j][5] = regions[j][5]
          /\ passes[j][6] = NextOdd(regions[j][6])

\* The composite is the frame with one pass per region laid on it: those of the
\* automatic regions in list order first, those of the manual regions in list
\* order after them.
AutomaticThenManual(composite, frame, b, i) ==
    LET na == Len(RegionsOf(b.detected_regions, i))
    IN  /\ composite.frame = frame
        /\ Len(composite.blurs) = na + Len(RegionsOf(b.manual_regions, i))
        /\ InListOrder(SubSeq(composite.blurs, 1, na), RegionsOf(b.detected_regions, i))
        /\ InListOrder(SubSeq(composite.blurs, na + 1, Len(composite.blurs)),
                       RegionsOf(b.manual_regions, i))

\* Compositing the current frame leaves the frame it was handed as it was and
\* lays the passes in order.
CompositeOfCurrent ==
    vp.current_frame # NoFrame =>
        LET a == apply_blur(bm, vp.current_frame, vp.current_frame_idx)
        IN  /\ a.frame = vp.current_frame
            /\ AutomaticThenManual(a.ret, vp.current_frame, bm, vp.current_frame_idx)

\* A step that puts a render of frame i into the render cache caches the
\* composite of the frame it holds and of the regions the ledger then has for i,
\* and the frame it holds is still the frame that was read.
RenderComposites ==
    \A i \in Frames :
        (/\ i \in DOMAIN vp'.processed_frames
         /\ \/ i \notin DOMAIN vp.processed_frames
            \/ vp'.processed_frames[i] # vp.processed_frames[i]) =>
            /\ vp'.current_frame_idx = i
            /\ vp'.current_frame \in {[vid |-> vp'.cap.path, idx |-> j] : j \in Frames}
                                      \cup {vp.current_frame}
            /\ AutomaticThenManual(vp'.processed_frames[i], vp'.current_frame, bm', i)

\* C20: apply_blur leaves the frame it is handed unchanged and blurs a copy, one
\* region at a time: the automatic regions of the frame in list order, then its
\* manual regions in list order, each pass on the result of the passes before.
C20_CompositeOrder ==
    [](CompositeOfCurrent) /\ [][RenderComposites]_vars

\* The rendered current frame carries an automatic pass followed by a manual
\* one over different rectangles.
C20_WitnessAutomaticThenManual ==
    /\ vp.current_frame_idx \in DOMAIN vp.processed_frames
    /\ Len(RegionsOf(bm.detected_regions, vp.current_frame_idx)) = 1
    /\ Len(RegionsOf(bm.manual_regions, vp.current_frame_idx)) = 1
    /\ Rects(vp.processed_frames[vp.current_frame_idx].blurs) = <<BoxB, BoxA>>
    /\ Rects(RegionsOf(bm.detected_regions, vp.current_frame_idx)) = <<BoxB>>


\* The export writes index i: the frame it appends to the sink is the frame
\* get_frame(i) handed to the loop under one pass per region the ledger holds for
\* i at that step, automatic ones first, and under no pass when it holds none,
\* whatever the detection cache holds for i.
ExportWritesLedger ==
    ExportStep("write") /\ sink' # sink =>
        LET written == sink'.writes[Len(sink'.writes)]
            recorded == Len(RegionsOf(bm.detected_regions, worker.i))
                        + Len(RegionsOf(bm.manual_regions, worker.i))
        IN  /\ sink'.writes = Append(sink.writes, written)
            /\ AutomaticThenManual(written, worker.frame, bm, worker.i)
            /\ recorded = 0 => written = [frame |-> worker.frame, blurs |-> <<>>]
            /\ bm'.detected_regions = bm.detected_regions
            /\ bm'.manual_regions = bm.manual_regions

\* C21: the regions applied to the frame the export writes for index i are
\* exactly the automatic and manual regions the ledger holds for i at that
\* moment; a frame with no region recorded is written as the source gave it, so
\* a frame that was never rendered gets no automatic region in the export.
C21_ExportAppliesLedgerRegions == [][ExportWritesLedger]_vars

\* The export wrote frame 0 without a blur, the detection cache holding two
\* faces for it that no render turned into regions, and then frame 1 under the
\* manual region drawn on it.
C21_WitnessUnrenderedFrame ==
    /\ Len(sink.writes) = 2
    /\ sink.writes[1] = [frame |-> [vid |-> "a.mp4", idx |-> 0], blurs |-> <<>>]
    /\ 0 \in DOMAIN vp.detection_results
    /\ vp.detection_results[0] = SomeDet(<<BoxA, BoxB>>)
    /\ 0 \notin DOMAIN bm.detected_regions
    /\ sink.writes[2].frame.idx = 1
    /\ Rects(sink.writes[2].blurs) = <<BoxA>>
    /\ Rects(RegionsOf(bm.manual_regions, 1)) = <<BoxA>>


\* The queue as the export thread fills it: between two terminal messages the
\* progress values do not fall, and once no export is running the last message
\* is a terminal one.
ProgressThenTerminal ==
    /\ \A k \in 1 .. (Len(queue) - 1) :
          queue[k].type = "progress" /\ queue[k + 1].type = "progress" =>
              queue[k].value <= queue[k + 1].value
    /\ worker.pc \in {"idle", "exit"} /\ queue # <<>> => IsTerminal(queue[Len(queue)])

\* The export thread puts one progress message per frame written and one
\* terminal message when save_video is over, and nothing else.
PutsInOrder ==
    /\ ExportStep("write") =>
          \/ queue' = queue
          \/ \E m \in {queue'[Len(queue')]} :
                queue' = Append(queue, m) /\ m.type = "progress"
    /\ ExportStep("post") =>
          \E m \in {queue'[Len(queue')]} : queue' = Append(queue, m) /\ IsTerminal(m)
    /\ worker' # worker /\ worker.pc \notin {"write", "post"} => queue' = queue

\* check_progress takes the messages from the head of the queue, in the order
\* they were put, and stops behind the first terminal message.
ReadsInOrder ==
    PollDrain =>
        \E k \in 0 .. Len(queue) :
            /\ queue' = SubSeq(queue, k + 1, Len(queue))
            /\ \A j \in 1 .. (k - 1) : ~IsTerminal(queue[j])

\* C22: an export puts progress messages with values that do not fall, followed
\* by exactly one terminal message and nothing after it, and check_progress
\* reads the messages in that order.
C22_ProgressThenOneTerminal ==
    [](ProgressThenTerminal) /\ [][PutsInOrder /\ ReadsInOrder]_vars


\* The step is a handler of the detection path in which the detector is called
\* and raises: Run Detection or switching detection on with a frame loaded, or a
\* navigation whose get_frame misses the detection cache with detection enabled.
DetectorRaisedIn ==
    \/ RunDetection(TRUE) /\ vp.current_frame # NoFrame
    \/ ToggleAutoDetect(TRUE) /\ ~ui.auto_detect /\ vp.current_frame # NoFrame
    \/ Requested(TRUE) \in Frames /\ get_frame(vp, bm, Requested(TRUE), TRUE).exc

\* C23: when the detector raises inside get_frame or run_detection the exception
\* leaves the call, and the detection cache is as it was before the call: every
\* entry it held, the one of the frame in question included, is still there
\* with the same value.
C23_DetectorFailureLeavesCache ==
    [][DetectorRaisedIn => vp'.detection_results = vp.detection_results]_vars


\* C24: open_video on a file that cannot be opened returns False and leaves the
\* capture, the frame count, the current frame and its index, the detection
\* cache, the render cache and the ledger as they were, so that the video that
\* was open before can still be used.
C24_FailedOpenChangesNothing ==
    [][\A path \in Videos, d \in DetOutcomes :
          OpenVideo(path, FALSE, {}, d) =>
              /\ ~open_video(vp, bm, path, FALSE, {}, d).ret
              /\ vp'.cap = vp.cap
              /\ vp'.frame_count = vp.frame_count
              /\ vp'.current_frame = vp.current_frame
              /\ vp'.current_frame_idx = vp.current_frame_idx
              /\ vp'.detection_results = vp.detection_results
              /\ vp'.processed_frames = vp.processed_frames
              /\ bm' = bm]_vars


\* C25: reset() leaves the automatic-region map and the manual-region map empty
\* and the defaults at sigma 30 and kernel size 31, whatever update of the
\* defaults came before it.
C25_ResetRestoresInitial ==
    [][Reset =>
          /\ bm'.detected_regions = EmptyMap
          /\ bm'.manual_regions = EmptyMap
          /\ bm'.default_sigma = InitSigma
          /\ bm'.default_ksize = InitKsize]_vars


\* A render request for a frame that has an entry in the render cache returns
\* that entry and changes neither the video processor nor the ledger, so a
\* request repeated with nothing in between returns the same again.
RenderHitReturnsEntry ==
    vp.current_frame # NoFrame /\ vp.current_frame_idx \in DOMAIN vp.processed_frames =>
        LET r == process_current_frame(vp, bm)
            again == process_current_frame(r.vp, r.bm)
        IN  /\ r.ret = vp.processed_frames[vp.current_frame_idx]
            /\ r.vp = vp
            /\ r.bm = bm
            /\ again = r

\* Going back to a frame, by Previous or by the frame slider, requests its
\* render with no invalidation: when the frame has a cache entry the step leaves
\* the render cache and both region maps as they were.
RepeatedRequestKeepsEntry ==
    (/\ \/ \E d \in DetOutcomes : PrevFrame(d)
        \/ \E value \in Frames, d \in DetOutcomes : FrameSlider(value, d)
     /\ call'.op = "get_frame"
     /\ call'.ret
     /\ vp'.current_frame_idx = call'.idx
     /\ call'.idx \in DOMAIN vp.processed_frames) =>
        /\ vp'.processed_frames = vp.processed_frames
        /\ bm'.detected_regions = bm.detected_regions
        /\ bm'.manual_regions = bm.manual_regions

\* A handler that changes the regions of the current frame drops its cache entry.
Invalidates ==
    \/ \E p \in Points : CanvasClick(p[1], p[2]) /\ call'.op = "toggle_region" /\ call'.ret
    \/ \E p \in Points : CanvasRelease(p[1], p[2]) /\ ReleaseReachesLedger(vp, ui, p[1], p[2])

\* The render that follows an invalidation composites the frame from the ledger
\* as it then is: the entry it caches carries the passes and the outlines of
\* the regions the ledger holds for the frame after the step.
RenderAfterInvalidation ==
    Invalidates =>
        LET i == vp'.current_frame_idx
        IN  /\ i \in DOMAIN vp'.processed_frames
            /\ AutomaticThenManual(vp'.processed_frames[i], vp'.current_frame, bm', i)
            /\ vp'.processed_frames[i].auto_boxes = Rects(RegionsOf(bm'.detected_regions, i))
            /\ vp'.processed_frames[i].manual_boxes = Rects(RegionsOf(bm'.manual_regions, i))

\* C26: render requests repeated for a frame with no invalidation in between
\* return the cached result, composite nothing and leave the ledger alone; the
\* first request after an invalidating mutation composites from the ledger as
\* it is then.
C26_RenderCachedUntilInvalidated ==
    [](RenderHitReturnsEntry) /\ [][RepeatedRequestKeepsEntry /\ RenderAfterInvalidation]_vars

\* Going back to frame 0 returned its cache entry as it was rendered before
\* detection was switched on: the entry has no pass and the ledger no automatic
\* region for the frame, although get_frame has now detected two faces on it.
C26_WitnessServedFromCache ==
    /\ call.op = "get_frame"
    /\ call.ret
    /\ vp.current_frame_idx = call.idx
    /\ call.idx \in DOMAIN vp.processed_frames
    /\ vp.processed_frames[call.idx].blurs = <<>>
    /\ Len(vp.detected_faces.boxes) = 2
    /\ call.idx \notin DOMAIN bm.detected_regions
    /\ process_current_frame(vp, bm).ret = vp.processed_frames[call.idx]

\* The click at (x, y) lands in a manual region of the frame on show and in no
\* automatic region of it.
InManualOnly(x, y) ==
    /\ ClickReachesLedger(vp)
    /\ AnyContains(RegionsOf(bm.manual_regions, vp.current_frame_idx), x, y)
    /\ ~AnyContains(RegionsOf(bm.detected_regions, vp.current_frame_idx), x, y)

\* Clicking into a manual region of the frame on show removes it: toggle_region
\* returns True, the first manual region holding the point is gone from the
\* frame's list, and the frame's cache entry is replaced by a render of the
\* regions the ledger then holds for the frame.
ClickRemovesDrawn ==
    \A p \in Points :
        CanvasClick(p[1], p[2]) /\ InManualOnly(p[1], p[2]) =>
            LET i == vp.current_frame_idx
                before == RegionsOf(bm.manual_regions, i)
                j == FirstCovering(before, p[1], p[2])
            IN  /\ call'.op = "toggle_region"
                /\ call'.ret
                /\ RegionsOf(bm'.manual_regions, i) = RemoveAt(before, j)
                /\ ~ui'.drawing
                /\ vp'.current_frame_idx = i
                /\ i \in DOMAIN vp'.processed_frames
                /\ AutomaticThenManual(vp'.processed_frames[i], vp'.current_frame, bm', i)
                /\ Len(vp'.processed_frames[i].manual_boxes) = Len(before) - 1

\* C27: a manual region is drawn on the current frame and the operator clicks
\* inside it, at a point no automatic region holds: toggle_region returns True,
\* the region leaves the frame's manual list, the frame's cache entry is dropped
\* and the render that follows has no blur for the region.
C27_DrawThenClickRemoves == [][ClickRemovesDrawn]_vars

\* The manual region drawn on the frame was clicked away again: the frame has no
\* manual region and its render no pass.
C27_WitnessDrawnThenRemoved ==
    /\ call.op = "toggle_region"
    /\ call.ret
    /\ vp.current_frame_idx = call.idx
    /\ call.idx \in DOMAIN bm.manual_regions
    /\ bm.manual_regions[call.idx] = <<>>
    /\ RegionsOf(bm.detected_regions, call.idx) = <<>>
    /\ call.idx \in DOMAIN vp.processed_frames
    /\ vp.processed_frames[call.idx].blurs = <<>>


\* The indices just outside the file, on both sides.
OutOfRange == {-1, vp.frame_count, vp.frame_count + 1}

\* get_frame with an index outside the file, next_frame on the last frame and
\* prev_frame on the first return None, raise nothing and leave the video
\* processor (current frame and index, detection cache, capture position) and
\* the ledger as they are, whatever the detector would do.
OutOfRangeReturnsNone ==
    \A d \in DetOutcomes :
        /\ \A i \in OutOfRange : get_frame(vp, bm, i, d) = Result(vp, bm, NoFrame, FALSE)
        /\ vp.current_frame_idx >= vp.frame_count - 1 =>
              vp_next_frame(vp, bm, d) = Result(vp, bm, NoFrame, FALSE)
        /\ vp.current_frame_idx <= 0 =>
              vp_prev_frame(vp, bm, d) = Result(vp, bm, NoFrame, FALSE)

\* Next on the last frame and Previous on the first change nothing.
StopsAtTheEnds ==
    /\ (\E d \in DetOutcomes : NextFrame(d)) /\ vp.current_frame_idx >= vp.frame_count - 1 =>
          vp' = vp /\ bm' = bm
    /\ (\E d \in DetOutcomes : PrevFrame(d)) /\ vp.current_frame_idx <= 0 =>
          vp' = vp /\ bm' = bm

\* C28: a frame request outside [0, frame_count), by get_frame, by next_frame on
\* the last frame or by prev_frame on frame 0, returns None without raising and
\* leaves the current frame, its index, the detection cache and the position of
\* the capture unchanged.
C28_OutOfRangeRequestIsNoOp ==
    [](OutOfRangeReturnsNone) /\ [][StopsAtTheEnds]_vars

\* Next was pressed on the last frame of an open video: the frame on show is
\* still the last one.
C28_WitnessNextOnLastFrame ==
    /\ call.op = "next_frame"
    /\ call.idx = vp.frame_count
    /\ vp.frame_count = MaxFrames
    /\ vp.current_frame_idx = MaxFrames - 1
    /\ vp.current_frame = [vid |-> vp.cap.path, idx |-> MaxFrames - 1]
    /\ vp.cap.pos = MaxFrames


\* C29: once a video with at least one frame is open, the current frame index
\* is one of 0 .. frame_count - 1, whatever opens, navigation, copies forward
\* and exports came before and whichever frame reads failed.
C29_CurrentIndexInRange ==
    vp.cap.opened /\ vp.frame_count >= 1 =>
        0 <= vp.current_frame_idx /\ vp.current_frame_idx < vp.frame_count


\* C30: whenever a handler of the Tk thread can run (a click, a copy forward, a
\* status update), the ledger's current index is the video processor's current
\* index, whatever opens, navigation, renders and exports came before and
\* whichever frame reads failed.
C30_IndicesAgree ==
    UiIdle => bm.current_frame_idx = vp.current_frame_idx

\* C31: check_progress stays scheduled until it has taken the terminal message
\* of the export it was scheduled for: when no check_progress is scheduled or
\* running, no terminal message is waiting in the queue (so that the poll of a
\* later export cannot take the terminal message of an earlier one).
C31_TerminalConsumed ==
    ui.polls = 0 /\ ui.poll_pc = "idle" =>
        \A k \in 1 .. Len(queue) : ~IsTerminal(queue[k])

\* A step that starts an export thread (and schedules its check_progress).
ThreadStarts == worker'.pc = "begin" /\ ui'.polls > ui.polls

\* C32: at most one export thread runs at any time: a thread is started only
\* when none runs and is_processing is false, is_processing is true exactly
\* while a thread runs, and so it is false again after every way the thread
\* ends (a result of True or False, an exception).
C32_OneExportWorker ==
    /\ [](ui.is_processing <=> worker.pc # "idle")
    /\ [][ThreadStarts => worker.pc = "idle" /\ ~ui.is_processing]_vars

\* A second export was started after the first one ended with an exception, whose
\* message is still in the queue.
C32_WitnessStartedAgain ==
    /\ worker.pc = "begin"
    /\ ui.is_processing
    /\ \E k \in 1 .. Len(queue) : queue[k] = Msg("error", 1)

\* A step of the export thread, from the start of save_video to its end.
ExportThreadStep == worker.pc # "idle" /\ worker' # worker

\* C33: the export leaves the editing state as it found it: no step of the
\* export thread changes the automatic-region map, the manual-region map, the
\* blur defaults or the render cache, at any frame index, so that with no
\* handler running beside it they are after save_video what they were before.
C33_ExportKeepsEditingState ==
    [][ExportThreadStep =>
          /\ bm'.detected_regions = bm.detected_regions
          /\ bm'.manual_regions = bm.manual_regions
          /\ bm'.default_sigma = bm.default_sigma
          /\ bm'.default_ksize = bm.default_ksize
          /\ vp'.processed_frames = vp.processed_frames]_vars

\* An export has written every frame of a file that has automatic regions, a
\* manual region and a rendered frame.
C33_WitnessExportedEdited ==
    /\ worker.pc = "exit"
    /\ worker.result
    /\ Len(sink.writes) = vp.frame_count
    /\ \E f \in DOMAIN bm.detected_regions : bm.detected_regions[f] # <<>>
    /\ \E f \in DOMAIN bm.manual_regions : bm.manual_regions[f] # <<>>
    /\ DOMAIN vp.processed_frames # {}

\* The regions of new are regions of old (by rectangle), and no more of them.
NoMore(new, old) ==
    /\ Len(new) <= Len(old)
    /\ \A j \in 1 .. Len(new) : \E k \in 1 .. Len(old) : Rects(new)[j] = Rects(old)[k]

\* Every frame that has an automatic collection keeps it, and the collection
\* gains no region, unless the step is a copy forward from the frame before it,
\* which adds regions of that frame only.
AutomaticPersists ==
    \A f \in DOMAIN bm.detected_regions :
        /\ f \in DOMAIN bm'.detected_regions
        /\ \/ NoMore(bm'.detected_regions[f], bm.detected_regions[f])
           \/ /\ CopyForward({FALSE})
              /\ f = bm.current_frame_idx + 1
              /\ NoMore(bm'.detected_regions[f],
                        bm.detected_regions[f] \o RegionsOf(bm.detected_regions, f - 1))

\* A click that removes an automatic region ends, after its re-render, with the
\* automatic collections as toggle_region left them.
RemovalStays ==
    \A p \in Points :
        /\ CanvasClick(p[1], p[2])
        /\ ClickReachesLedger(vp)
        /\ toggle_region(bm, p[1], p[2]).bm.detected_regions # bm.detected_regions
        => bm'.detected_regions = toggle_region(bm, p[1], p[2]).bm.detected_regions

\* C34: a removed automatic region stays removed: the click that removes it
\* ends without it, and afterwards no navigation, render, detection re-run,
\* detection switch, blur slider move or export step adds a region to the
\* frame's automatic collection; only a copy forward from the frame before adds.
C34_DeletionsPersist == [][RemovalStays /\ AutomaticPersists]_vars

\* The thread has left save_video: the writer, if one was made, is released once
\* and the terminal message is the last one put.
ExportReturned ==
    /\ worker.pc = "exit"
    /\ sink.created => sink.released = 1
    /\ queue # <<>>
    /\ IsTerminal(queue[Len(queue)])

\* C35: every started export terminates: the loop index never passes the frame
\* count, a started thread reaches the end of save_video with the writer released
\* and the terminal message posted, and is_processing becomes false after that,
\* also for a file none of whose frames can be read.
C35_ExportTerminates ==
    /\ [](worker.i <= worker.n)
    /\ (worker.pc = "begin") ~> ExportReturned
    /\ (worker.pc = "exit") ~> (worker.pc = "idle" /\ ~ui.is_processing)

\* An export of a file none of whose frames could be read has gone through all
\* its passes, written nothing and posted its terminal message.
C35_WitnessNoFrameRead ==
    /\ ExportReturned
    /\ vp.cap.unreadable = Frames
    /\ worker.n = MaxFrames
    /\ worker.i = worker.n
    /\ sink.created
    /\ sink.writes = <<>>

====
